---- MODULE Spec2Model ----
(***************************************************************************)
(* Model of the dirlin validation engine.                                  *)
(*                                                                         *)
(*   Spec    the instance-based engine: Check + Validation                 *)
(*           (dirlin/pipeline/data_quality/base_validation.py), whose      *)
(*           binder infers shared parameters from the column names.        *)
(*   SpecBV  the class-based engine: BaseValidation (dirlin/validation.py) *)
(*           with its alias registry, verifier, binder, dispatcher and     *)
(*           the reference names of DirlinFormatter.                       *)
(*                                                                         *)
(* A column or parameter name is the sequence of its tokens: the words     *)
(* between separators and the separators "_", " " and "-" themselves, so   *)
(* "tsm_gross_income" is <<"tsm","_","gross","_","income">>.  A Python     *)
(* dict is the sequence of its items in insertion order.                   *)
(***************************************************************************)
EXTENDS Integers, Sequences, FiniteSets, TLC

VARIABLES
    checks_performed,          \* Validation.checks_performed
    shared_params,             \* Validation._shared_params
    arg_map,                   \* Validation._arg_map
    shared_param_column_map,   \* Validation._shared_param_column_map
    option_map,                \* Validation._option_map
    df_columns,                \* Validation._df_columns
    column_base_name_map,      \* Validation._column_base_name_map
    param_base_name_map,       \* Validation._param_base_name_map
    flag_infer_shared_params,  \* Validation._flag_infer_shared_params
    results,                   \* Validation.results
    flag_run_processed,        \* Validation.flag_run_processed
    runs,                      \* number of Validation.run calls made so far
    last,                      \* what the last call did, as its caller saw it
    alias_ref,                 \* per class, the dict object its __dict__["alias_mapping"] is
    alias_cell,                \* per dict object, its content
    set_count,                 \* number of alias_mapping[param] = ... assignments so far
    bv_last,                   \* what the last BaseValidation call did
    made,                      \* what the last Check(...) or Check.run call did
    pipeline                   \* the Pipeline and what its last call did

vars == <<checks_performed, shared_params, arg_map, shared_param_column_map,
          option_map, df_columns, column_base_name_map, param_base_name_map,
          flag_infer_shared_params, results, flag_run_processed, runs, last,
          alias_ref, alias_cell, set_count, bv_last, made, pipeline>>

----------------------------------------------------------------------------
(* Bounds *)

MaxRuns == 2
MaxRows == 2
MaxSets == 1

----------------------------------------------------------------------------
(* Sequences and Python dicts *)

Range(s) == {s[i] : i \in 1..Len(s)}

Contains(s, x) == \E i \in 1..Len(s) : s[i] = x

RECURSIVE Filter(_, _)
Filter(s, keep) ==
    IF s = <<>> THEN <<>>
    ELSE IF Head(s) \in keep THEN <<Head(s)>> \o Filter(Tail(s), keep)
         ELSE Filter(Tail(s), keep)

RECURSIVE Concat(_)
Concat(ss) == IF ss = <<>> THEN <<>> ELSE Head(ss) \o Concat(Tail(ss))

MinOf(S) == CHOOSE x \in S : \A y \in S : x <= y

MaxOf(S) == CHOOSE x \in S : \A y \in S : x >= y

Keys(d) == [i \in 1..Len(d) |-> d[i].k]

Values(d) == [i \in 1..Len(d) |-> d[i].v]

Has(d, key) == \E i \in 1..Len(d) : d[i].k = key

Get(d, key) == d[CHOOSE i \in 1..Len(d) : d[i].k = key].v

\* d[key] = val: an existing key keeps its place, a new key goes last
Put(d, key, val) ==
    IF Has(d, key)
    THEN [i \in 1..Len(d) |-> IF d[i].k = key THEN [k |-> key, v |-> val] ELSE d[i]]
    ELSE Append(d, [k |-> key, v |-> val])

\* d | e
RECURSIVE Merge(_, _)
Merge(d, e) == IF e = <<>> THEN d ELSE Merge(Put(d, Head(e).k, Head(e).v), Tail(e))

\* {k: v for ...} over a sequence of items, later items overwriting earlier ones
FromItems(items) == Merge(<<>>, items)

----------------------------------------------------------------------------
(* Names *)

None == <<"None">>

\* an attribute that holds None where a list of names or a dict is expected
NoneColumns == <<None>>

NoneMap == <<[k |-> None, v |-> None]>>

Name(a, b) == <<a, "_", b>>

id == <<"id">>
total == <<"total">>
tsm_g == Name("tsm", "gross")
tsm_e == Name("tsm", "expenses")
vt_g == Name("vt", "gross")
vt_e == Name("vt", "expenses")
appl_g == Name("appl", "gross")
appl_e == Name("appl", "expenses")
stock_g == Name("stock", "gross")
stock_e == Name("stock", "expenses")
stock_n == Name("stock", "net")
vt_n == Name("vt", "net")

\* str.split('_', maxsplit=1): the place of the first underscore, 0 when there is none
FirstUnderscore(field) ==
    IF \E i \in 1..Len(field) : field[i] = "_"
    THEN MinOf({i \in 1..Len(field) : field[i] = "_"})
    ELSE 0

generate_base_name(field, kw_or_base) ==
    LET i == FirstUnderscore(field) IN
    IF i = 0 THEN None
    ELSE IF kw_or_base THEN SubSeq(field, 1, i - 1)
         ELSE SubSeq(field, i + 1, Len(field))

----------------------------------------------------------------------------
(* Datasets: the column names in order and the number of rows.  The cell   *)
(* values are those of the repository's fixtures                           *)
(* (test/test_pipelines/test_pipeline_fixtures.py), repeated every three   *)
(* rows.                                                                   *)

Column(c) ==
    CASE c = id -> <<0, 1, 2>>
      [] c = tsm_g -> <<150, 160, 170>>
      [] c = tsm_e -> <<25, 20, 40>>
      [] c = vt_g -> <<100, 110, 111>>
      [] c = vt_e -> <<25, 20, 40>>
      [] c = appl_g -> <<112, 160, 563>>
      [] c = appl_e -> <<25, 20, 40>>
      [] c = stock_g -> <<165, 160, 180>>
      [] c = stock_e -> <<25, 20, 40>>
      [] c \in {<<"price">>, <<"Total", " ", "Price">>} -> <<30, 20, 40>>
      [] c = <<"B", " ", "Price">> -> <<20, 20, 50>>
      [] c \in {<<"cost">>, <<"Total", " ", "Cost">>} -> <<25, 20, 40>>
      [] c = <<"B">> -> <<9, 8, 7>>
      [] OTHER -> <<1, 2, 3>>

Cell(c, r) == Column(c)[((r - 1) % 3) + 1]

DF(cols, rows) == [cols |-> cols, rows |-> rows]

single_stock_df == DF(<<id, tsm_g, tsm_e>>, MaxRows)
single_stock_df_b == DF(<<id, appl_g, appl_e>>, MaxRows)
two_stock_df == DF(<<id, tsm_g, tsm_e, vt_g, vt_e>>, MaxRows)
crossed_stock_df == DF(<<id, tsm_g, vt_g, vt_e, tsm_e>>, MaxRows)
uneven_stock_df == DF(<<tsm_g, vt_g, tsm_e, vt_e, appl_e>>, MaxRows)
exact_stock_df == DF(<<id, stock_g, stock_e, tsm_g>>, 1)
plain_df == DF(<<id, total>>, 1)
no_match_df == DF(<<tsm_g, total>>, MaxRows)
\* two stocks, one of which has a net column
net_stock_df == DF(<<tsm_g, tsm_e, vt_g, vt_e, vt_n>>, MaxRows)

Datasets == {single_stock_df, single_stock_df_b, two_stock_df, crossed_stock_df,
             uneven_stock_df, exact_stock_df, plain_df, no_match_df, net_stock_df}

----------------------------------------------------------------------------
(* Checks: Check.name and Check.expected_arguments of the wrapped function *)

Check(name, expected_arguments) ==
    [name |-> name, expected_arguments |-> expected_arguments]

std_check_function == Check("std_check_function", <<stock_g, stock_e>>)
gross_check_function == Check("gross_check_function", <<id, stock_g>>)
total_check_function == Check("total_check_function", <<total>>)
net_check_function == Check("net_check_function", <<stock_n>>)

SharedParams == {<<>>, <<stock_g, stock_e>>}

CheckLists == {<<std_check_function>>,
               <<gross_check_function, std_check_function>>,
               <<total_check_function>>,
               <<std_check_function, total_check_function>>,
               <<std_check_function, net_check_function>>}

\* the wrapped function applied to one row's values, a dict parameter -> value
check_function(check, row) ==
    CASE check.name = "std_check_function" ->
            Get(row, stock_g) - Get(row, stock_e) = 140
      [] check.name = "gross_check_function" ->
            Get(row, id) >= 0 /\ Get(row, stock_g) > 100
      [] check.name = "net_check_function" -> Get(row, stock_n) >= 1
      [] OTHER -> Get(row, total) >= 1

----------------------------------------------------------------------------
(* Exceptions, as the caller of a run sees them *)

Exc(type, what, names, suggest) ==
    [type |-> type, what |-> what, names |-> names, suggest |-> suggest]

NoExc == Exc("None", "", {}, FALSE)

----------------------------------------------------------------------------
(* Validation._infer_param_class, on the object o = the fields of self.    *)
(* Every step is an operator of its own that takes the values computed so  *)
(* far as parameters.                                                      *)

\* for column in self._df_columns: self._column_base_name_map[column] = base_name
RECURSIVE FillColumnBaseNames(_, _)
FillColumnBaseNames(cbm, columns) ==
    IF columns = <<>> THEN cbm
    ELSE FillColumnBaseNames(
            Put(cbm, Head(columns), generate_base_name(Head(columns), FALSE)),
            Tail(columns))

\* if arg in self._shared_params or self._flag_infer_shared_params:
\*     if arg not in self._param_base_name_map: ...[arg] = param_base_name
FillParamBaseName(pbm, arg, o) ==
    IF (Contains(o.shared_params, arg) \/ o.flag_infer_shared_params) /\ ~Has(pbm, arg)
    THEN Put(pbm, arg, generate_base_name(arg, FALSE))
    ELSE pbm

RECURSIVE FillParamBaseNames(_, _, _)
FillParamBaseNames(pbm, args, o) ==
    IF args = <<>> THEN pbm
    ELSE FillParamBaseNames(FillParamBaseName(pbm, Head(args), o), Tail(args), o)

\* _found_shared_param = any(p in self._shared_params for p in check.expected_arguments)
FoundSharedParam(o, check) ==
    o.shared_params # <<>>
    /\ \E i \in 1..Len(check.expected_arguments) :
          Contains(o.shared_params, check.expected_arguments[i])

\* the two maps start empty when both are None
EmptyIfNone(map) == IF map = NoneMap THEN <<>> ELSE map

PreCheck(o, check) ==
    IF FoundSharedParam(o, check) \/ o.flag_infer_shared_params
    THEN [o EXCEPT
            !.column_base_name_map = FillColumnBaseNames(EmptyIfNone(@), o.df_columns),
            !.param_base_name_map =
                FillParamBaseNames(EmptyIfNone(@), check.expected_arguments, o)]
    ELSE o

\* if param not in map: map[param] = list()
EnsureKey(map, param) == IF Has(map, param) THEN map ELSE Put(map, param, <<>>)

\* if column not in map[param]: map[param].append(column)
AppendOnce(map, param, column) ==
    IF Contains(Get(map, param), column) THEN map
    ELSE Put(map, param, Append(Get(map, param), column))

\* parameter nfl_qb matches column raiders_qb (qb == qb)
BaseNamesMatch(o, column, param) ==
    Get(o.column_base_name_map, column) = Get(o.param_base_name_map, param)

\* c = [o, found, missing]
MatchColumn(c, param, column) ==
    IF BaseNamesMatch(c.o, column, param)
    THEN [c EXCEPT
            !.found = @ \/ ~Has(c.o.shared_param_column_map, param),
            !.o.shared_param_column_map = AppendOnce(EnsureKey(@, param), param, column)]
    ELSE c

RECURSIVE MatchColumns(_, _, _)
MatchColumns(c, param, columns) ==
    IF columns = <<>> THEN c
    ELSE MatchColumns(MatchColumn(c, param, Head(columns)), param, Tail(columns))

StartsWithOption(param) == Len(param) >= 2 /\ param[1] = "option" /\ param[2] = "_"

\* match param in self._df_columns: case True / case False
CategorizeParam(c, param) ==
    IF Contains(c.o.df_columns, param)
    THEN [c EXCEPT !.o.arg_map = IF Has(@, param) THEN @ ELSE Put(@, param, param)]
    ELSE IF c.o.flag_infer_shared_params \/ Contains(c.o.shared_params, param)
    THEN MatchColumns(c, param, c.o.df_columns)
    ELSE IF StartsWithOption(param)
    THEN [c EXCEPT !.o.option_map = Put(@, param, param)]
    ELSE [c EXCEPT !.missing = Append(@, param)]

RECURSIVE Categorize(_, _)
Categorize(c, params) ==
    IF params = <<>> THEN c
    ELSE Categorize(CategorizeParam(c, Head(params)), Tail(params))

\* the sizes of every list of self._shared_param_column_map
SharedSizes(map) == {Len(map[i].v) : i \in 1..Len(map)}

Keywords(columns) == {generate_base_name(columns[i], TRUE) : i \in 1..Len(columns)}

\* the IndexError of the first key whose list is shorter than the longest
MismatchError(map, max_shared_size) ==
    Exc("IndexError", "size_of_shared_columns_must_match",
        Keywords(map[MinOf({i \in 1..Len(map) : Len(map[i].v) = max_shared_size})].v)
          \ Keywords(map[MinOf({i \in 1..Len(map) : Len(map[i].v) # max_shared_size})].v),
        FALSE)

\* if _missing_parameters: raise ValueError; if _found_shared_param: the size check
Verdict(c) ==
    IF c.missing # <<>>
    THEN [c.o EXCEPT !.exc = Exc("ValueError", "no_matching_column", Range(c.missing),
                                ~c.o.flag_infer_shared_params)]
    ELSE IF ~c.found THEN c.o
    ELSE IF c.o.shared_param_column_map = <<>>
    THEN [c.o EXCEPT !.exc = Exc("ValueError", "max_of_empty_sequence", {}, FALSE)]
    ELSE IF Cardinality(SharedSizes(c.o.shared_param_column_map)) > 1
    THEN [c.o EXCEPT !.exc = MismatchError(c.o.shared_param_column_map,
                                           MaxOf(SharedSizes(c.o.shared_param_column_map)))]
    ELSE c.o

infer_param_class(o, check) ==
    Verdict(Categorize([o |-> PreCheck(o, check),
                        found |-> FoundSharedParam(o, check),
                        missing |-> <<>>],
                       check.expected_arguments))

----------------------------------------------------------------------------
(* Validation._align_parameters                                            *)

Scalar(b) == [kind |-> "scalar", val |-> <<b>>]

Series(bs) == [kind |-> "series", val |-> bs]

Item(key, val) == [k |-> key, v |-> val]

\* {kw: map[kw] for kw in check.expected_arguments if kw in map}
RECURSIVE Select(_, _)
Select(map, kws) ==
    IF kws = <<>> THEN <<>>
    ELSE IF Has(map, Head(kws))
         THEN <<Item(Head(kws), Get(map, Head(kws)))>> \o Select(map, Tail(kws))
         ELSE Select(map, Tail(kws))

\* zip(*d.values()) stops at the shortest list
ZipLength(d) == MinOf({Len(d[i].v) : i \in 1..Len(d)})

\* [dict(zip(d.keys(), values)) for values in zip(*d.values())]; zip() of nothing is empty
ZipRecords(d) ==
    IF d = <<>> THEN <<>>
    ELSE [j \in 1..ZipLength(d) |-> [i \in 1..Len(d) |-> Item(d[i].k, d[i].v[j])]]

\* {v: k for k, v in parameter_set.items()}
Reverse(parameter_set) ==
    FromItems([i \in 1..Len(parameter_set) |->
                  Item(parameter_set[i].v, parameter_set[i].k)])

\* df.rename(columns=rename_map): the column names afterwards, in order
Renamed(df, rename_map) ==
    [i \in 1..Len(df.cols) |->
        IF Has(rename_map, df.cols[i]) THEN Get(rename_map, df.cols[i]) ELSE df.cols[i]]

Places(columns, key) == {i \in 1..Len(columns) : columns[i] = key}

\* the row handed to the function: the values of the selected columns of row r
RowArgs(df, columns, keys, r) ==
    [i \in 1..Len(keys) |->
        Item(keys[i], Cell(df.cols[MinOf(Places(columns, keys[i]))], r))]

Applied(exc, called, val) == [exc |-> exc, called |-> called, val |-> val]

\* frame[keys].apply(lambda row: check.check_function(**row), axis=1), given the keys
\* that are no column, the keys that name two columns and the parameters left out
ApplyRows(df, columns, keys, check, absent, twice, unbound) ==
    IF absent # {}
    THEN Applied(Exc("KeyError", "not_in_index", absent, FALSE), FALSE, <<>>)
    ELSE IF df.rows = 0 THEN Applied(NoExc, FALSE, <<>>)
    ELSE IF twice # {}
    THEN Applied(Exc("TypeError", "multiple_values_for_argument", twice, FALSE), TRUE, <<>>)
    ELSE IF unbound # {}
    THEN Applied(Exc("TypeError", "missing_required_argument", unbound, FALSE), TRUE, <<>>)
    ELSE Applied(NoExc, TRUE,
                 [r \in 1..df.rows |-> check_function(check, RowArgs(df, columns, keys, r))])

Apply(df, columns, keys, check) ==
    ApplyRows(df, columns, keys, check,
              {key \in Range(keys) : Places(columns, key) = {}},
              {key \in Range(keys) : Cardinality(Places(columns, key)) > 1},
              Range(check.expected_arguments) \ Range(keys))

Call(check, args, exc) == [check |-> check.name, args |-> args, exc |-> exc.type]

\* the calls of the run so far, with this one when the function was reached
Called(calls, check, args, r) ==
    IF r.called THEN Append(calls, Call(check, args, r.exc)) ELSE calls

\* kw = self._generate_base_name(list(parameter_set.values())[0], kw_or_base=True)
\* name = f"{check.name.strip('_')}_{kw}"
SharedName(check, parameter_set) ==
    <<check.name, "_">> \o generate_base_name(parameter_set[1].v, TRUE)

\* result[name] = r[0]
\* a = [result, calls, exc]
StoreFirst(a, check, parameter_set, r) ==
    IF r.exc # NoExc
    THEN [a EXCEPT !.exc = r.exc, !.calls = Called(@, check, parameter_set, r)]
    ELSE IF r.val = <<>>
    THEN [a EXCEPT !.exc = Exc("KeyError", "r[0]", {}, FALSE)]
    ELSE [a EXCEPT !.result = Put(@, SharedName(check, parameter_set), Scalar(r.val[1])),
                   !.calls = Called(@, check, parameter_set, r)]

\* for parameter_set in combined_parameter_sets
RECURSIVE RunSharedSets(_, _, _, _)
RunSharedSets(a, parameter_sets, check, df) ==
    IF parameter_sets = <<>> \/ a.exc # NoExc THEN a
    ELSE RunSharedSets(
            StoreFirst(a, check, Head(parameter_sets),
                       Apply(df, Renamed(df, Reverse(Head(parameter_sets))),
                             Keys(Head(parameter_sets)), check)),
            Tail(parameter_sets), check, df)

\* combined_parameter_sets = [shared_combo | static_args for shared_combo in combos]
CombinedSets(shared_param_combos, static_args) ==
    [i \in 1..Len(shared_param_combos) |-> Merge(shared_param_combos[i], static_args)]

\* result[check_name] = df[static_args.keys()].apply(...)
StoreStatic(calls, check, static_args, r) ==
    [result |-> IF r.exc = NoExc THEN <<Item(<<check.name>>, Series(r.val))>> ELSE <<>>,
     calls |-> Called(calls, check, static_args, r),
     exc |-> r.exc]

\* self.results = self.results | result
Commit(o, a) ==
    IF a.exc # NoExc
    THEN [o EXCEPT !.exc = a.exc, !.calls = a.calls]
    ELSE [o EXCEPT !.results = Merge(@, a.result), !.calls = a.calls]

AlignWith(o, check, df, static_args, shared_args) ==
    IF shared_args # <<>>
    THEN Commit(o, RunSharedSets([result |-> <<>>, calls |-> o.calls, exc |-> NoExc],
                                 CombinedSets(ZipRecords(shared_args), static_args),
                                 check, df))
    ELSE Commit(o, StoreStatic(o.calls, check, static_args,
                               Apply(df, df.cols, Keys(static_args), check)))

align_parameters(o, check, df) ==
    AlignWith(o, check, df,
              Select(o.arg_map, check.expected_arguments),
              Select(o.shared_param_column_map, check.expected_arguments))

----------------------------------------------------------------------------
(* Validation.run and Validation.generate_error_log                        *)

AlignIfBound(inferred, check, df) ==
    IF inferred.exc # NoExc THEN inferred ELSE align_parameters(inferred, check, df)

\* for check in self.checks_performed: _infer_param_class, then _align_parameters;
\* an exception ends the loop and leaves what was assigned so far
RECURSIVE RunChecks(_, _, _)
RunChecks(o, checks, df) ==
    IF checks = <<>> \/ o.exc # NoExc THEN o
    ELSE RunChecks(AlignIfBound(infer_param_class(o, Head(checks)), Head(checks), df),
                   Tail(checks), df)

\* pd.DataFrame.from_dict(self.results) refuses a dict whose values are all scalars
AllScalar(res) == res # <<>> /\ \A i \in 1..Len(res) : res[i].v.kind = "scalar"

\* if infer_shared: the flag is set; if self._df_columns is None: it is set
Start(o, df, infer_shared) ==
    [o EXCEPT !.flag_infer_shared_params = @ \/ infer_shared,
              !.df_columns = IF @ = NoneColumns THEN df.cols ELSE @,
              !.exc = NoExc,
              !.calls = <<>>]

\* temp_df = pd.DataFrame.from_dict(self.results); self.flag_run_processed = True
Finish(done) ==
    IF done.exc # NoExc THEN done
    ELSE IF AllScalar(done.results)
    THEN [done EXCEPT !.exc = Exc("ValueError", "all_scalar_values", {}, FALSE)]
    ELSE [done EXCEPT !.flag_run_processed = TRUE]

run(o, df, infer_shared) ==
    Finish(RunChecks(Start(o, df, infer_shared), o.checks_performed, df))

Count(bs) == Cardinality({i \in 1..Len(bs) : bs[i]})

\* error_log[check] = [_total_validated, _error_count]
ErrorLog(res) ==
    [i \in 1..Len(res) |->
        Item(res[i].k, <<Len(res[i].v.val), Len(res[i].v.val) - Count(res[i].v.val)>>)]

Logged(exc, log) == [exc |-> exc, log |-> log]

generate_error_log(o) ==
    IF ~o.flag_run_processed
    THEN Logged(Exc("RuntimeError", "run_was_not_ran", {}, FALSE), <<>>)
    ELSE IF \E i \in 1..Len(o.results) : o.results[i].v.kind = "scalar"
    THEN Logged(Exc("TypeError", "len_of_scalar", {}, FALSE), <<>>)
    ELSE Logged(NoExc, ErrorLog(o.results))

----------------------------------------------------------------------------
(* BaseValidation: the rule sets, their functions and their alias mappings *)

price == <<"price">>
cost == <<"cost">>
return == <<"return">>
Total_Price == <<"Total", " ", "Price">>
Total_Cost == <<"Total", " ", "Cost">>
Old_Cost == <<"Old", " ", "Cost">>
A_Price == <<"A", " ", "Price">>
B_Price == <<"B", " ", "Price">>
A_Cost == <<"A", " ", "Cost">>
B_Cost == <<"B", " ", "Cost">>
C_Cost == <<"C", " ", "Cost">>
arg_a == <<"a">>
arg_b == <<"b">>
arg_c == <<"c">>
A == <<"A">>
B == <<"B">>
C == <<"C">>

totals_df == DF(<<Total_Price, Total_Cost>>, MaxRows)
mixed_df == DF(<<price, cost, Total_Price, Total_Cost>>, MaxRows)
pairs_df == DF(<<A_Price, A_Cost, B_Price, B_Cost>>, MaxRows)
ragged_df == DF(<<A_Price, B_Price, A_Cost, B_Cost, C_Cost>>, MaxRows)

Reports == {totals_df, mixed_df, pairs_df, ragged_df}

\* example_dataframe_factory, and the frames with the rows of one to MaxRows orders
example_df == DF(<<A, B, C>>, MaxRows)
first_order_df == DF(<<Total_Price, Total_Cost>>, 1)

\* a value of alias_mapping, dict[str, list | str]; None is what _map_param_to_alias
\* gives a parameter without an entry
AliasList(names) == [kind |-> "list", names |-> names]

AliasStr(name) == [kind |-> "str", names |-> <<name>>]

AliasNone == [kind |-> "None", names |-> <<>>]

\* a class body's alias_mapping = {...}; Absent when the body has none
Absent == <<Item(None, AliasNone)>>

totals_alias == <<Item(price, AliasList(<<Total_Price>>)), Item(cost, AliasList(<<Total_Cost>>))>>
groups_alias == <<Item(price, AliasList(<<A_Price, B_Price>>)),
                  Item(cost, AliasList(<<A_Cost, B_Cost, C_Cost>>))>>
single_alias == <<Item(price, AliasList(<<A_Price>>))>>
str_alias == <<Item(price, AliasStr(Total_Price)), Item(cost, AliasStr(Old_Cost))>>
gone_alias == <<Item(cost, AliasList(<<Old_Cost>>))>>
empty_alias == <<Item(cost, AliasList(<<>>))>>
example_alias == <<Item(arg_a, AliasList(<<A>>)), Item(arg_b, AliasList(<<B>>)), Item(arg_c, AliasList(<<C>>))>>

AliasDeclarations == {Absent, totals_alias, groups_alias, single_alias, str_alias,
                      gone_alias, empty_alias}

\* the classes: BaseValidation <- TestBaseValidation <- TestSecondLayer, and
\* BaseValidation <- SingleLayerObject
BaseValidation == "BaseValidation"
TestBaseValidation == "TestBaseValidation"
TestSecondLayer == "TestSecondLayer"
SingleLayerObject == "SingleLayerObject"
SimpleSingleLayerObject == "SimpleSingleLayerObject"
BadSingleLayerObject == "BadSingleLayerObject"
BadSeriesLayerObject == "BadSeriesLayerObject"
BadSiblingObject == "BadSiblingObject"
MixedLayerObject == "MixedLayerObject"
RatioLayerObject == "RatioLayerObject"
StrictSeriesObject == "StrictSeriesObject"
\* class TestThirdLayer(TestSecondLayer), a further layer on the two of test_base.py, and
\* class OverrideLayer(TestBaseValidation), which declares margin_check again
TestThirdLayer == "TestThirdLayer"
OverrideLayer == "OverrideLayer"

RuleSets == {TestBaseValidation, TestSecondLayer, SingleLayerObject}

Classes == RuleSets \cup {BaseValidation}

\* cls.__mro__[:-1]
mro(cls) ==
    CASE cls = TestSecondLayer -> <<TestSecondLayer, TestBaseValidation, BaseValidation>>
      [] cls = TestThirdLayer ->
            <<TestThirdLayer, TestSecondLayer, TestBaseValidation, BaseValidation>>
      [] cls = OverrideLayer -> <<OverrideLayer, TestBaseValidation, BaseValidation>>
      [] cls = TestBaseValidation -> <<TestBaseValidation, BaseValidation>>
      [] cls = BaseValidation -> <<BaseValidation>>
      [] OTHER -> <<cls, BaseValidation>>

\* a check function: its name and inspect.get_annotations(function)
Function(name, annotations) == [name |-> name, annotations |-> annotations]

margin_function ==
    Function("margin_function", <<Item(price, "int"), Item(cost, "int"), Item(return, "bool")>>)
differ_function ==
    Function("differ_function", <<Item(price, "int"), Item(cost, "int"), Item(return, "bool")>>)
series_function ==
    Function("series_function",
             <<Item(price, "pd.Series"), Item(cost, "pd.Series"), Item(return, "pd.Series")>>)

\* example_test_function, bad_example_test_function (no return annotation) and
\* example_series_function of test_simple_case.py
example_test_function ==
    Function("example_test_function",
             <<Item(arg_a, "int"), Item(arg_b, "float | int"), Item(arg_c, "str"), Item(return, "str")>>)
bad_example_test_function ==
    Function("bad_example_test_function",
             <<Item(arg_a, "int"), Item(arg_b, "float | int"), Item(arg_c, "str")>>)
example_series_function ==
    Function("example_series_function",
             <<Item(arg_a, "pd.Series"), Item(arg_b, "pd.Series"), Item(arg_c, "pd.Series"),
               Item(return, "pd.Series")>>)
\* a function with a series parameter and a scalar parameter
mixed_function ==
    Function("mixed_function",
             <<Item(price, "pd.Series"), Item(cost, "int"), Item(return, "pd.Series")>>)
\* price // (cost - 20) >= 1: ZeroDivisionError on a row whose cost is 20
ratio_function ==
    Function("ratio_function", <<Item(price, "int"), Item(cost, "int"), Item(return, "bool")>>)
\* price > cost, after: if (cost == 20).any(): raise ValueError
strict_series_function ==
    Function("strict_series_function",
             <<Item(price, "pd.Series"), Item(cost, "pd.Series"), Item(return, "pd.Series")>>)
\* price < cost
loss_function ==
    Function("loss_function", <<Item(price, "int"), Item(cost, "int"), Item(return, "bool")>>)

\* the functions of validation_class.__dict__, in the order of the class body
ClassFunctions(validation_class) ==
    CASE validation_class = TestBaseValidation -> <<Item("margin_check", margin_function)>>
      [] validation_class = TestSecondLayer -> <<Item("differ_check", differ_function)>>
      [] validation_class = SingleLayerObject -> <<Item("series_check", series_function)>>
      [] validation_class = SimpleSingleLayerObject ->
            <<Item("example_test", example_test_function)>>
      [] validation_class = BadSingleLayerObject ->
            <<Item("example_test", bad_example_test_function)>>
      [] validation_class = BadSeriesLayerObject ->
            <<Item("example_test", example_series_function),
              Item("example_test2", example_test_function)>>
      [] validation_class = BadSiblingObject ->
            <<Item("example_test", example_test_function),
              Item("example_test2", bad_example_test_function)>>
      [] validation_class = MixedLayerObject ->
            <<Item("margin_check", margin_function), Item("mixed_check", mixed_function)>>
      [] validation_class = RatioLayerObject ->
            <<Item("differ_check", differ_function), Item("ratio_check", ratio_function)>>
      [] validation_class = StrictSeriesObject ->
            <<Item("series_check", series_function),
              Item("strict_check", strict_series_function)>>
      [] validation_class = TestThirdLayer -> <<Item("loss_check", loss_function)>>
      [] validation_class = OverrideLayer -> <<Item("margin_check", loss_function)>>
      [] OTHER -> <<>>

\* what the function returns: a bool per row, a str or the product of its arguments
Returns(function) ==
    CASE function.name \in {"example_test_function", "bad_example_test_function"} -> "str"
      [] function.name = "example_series_function" -> "int"
      [] OTHER -> "bool"

\* the function raises on the values of this row
Raises(function, args) ==
    /\ function.name \in {"ratio_function", "strict_series_function"}
    /\ Get(args, cost) = 20

\* the exception of the function, as it leaves the function
Raised(function) ==
    Exc(IF function.name = "ratio_function" THEN "ZeroDivisionError" ELSE "ValueError",
        "raised_by_the_function", {<<function.name>>}, FALSE)

\* function(**args) on the values of one row
Invoke(function, args) ==
    CASE function.name = "differ_function" -> Get(args, price) # Get(args, cost)
      [] function.name = "loss_function" -> Get(args, price) < Get(args, cost)
      [] function.name = "ratio_function" ->
            (Get(args, price) \div (Get(args, cost) - 20)) >= 1
      [] Returns(function) = "str" -> "Hello"
      [] Returns(function) = "int" -> Get(args, arg_a) * Get(args, arg_b) * Get(args, arg_c)
      [] OTHER -> Get(args, price) > Get(args, cost)

----------------------------------------------------------------------------
(* BaseValidation._get_all_alias_mapping_in_class.  ref[c] names the dict  *)
(* object that c.__dict__["alias_mapping"] holds (Absent when c.__dict__   *)
(* has none) and cell[x] is the content of the dict object x.  The result  *)
(* is a content and the object it is: an existing one, or "new".           *)

Flat(map, obj) == [map |-> map, obj |-> obj]

NoFlat == Flat(Absent, "None")

\* overide_param: the items of temp whose key all_alias_mapping does not hold
RECURSIVE overide_param(_, _)
overide_param(temp, all_alias_mapping) ==
    IF temp = <<>> THEN <<>>
    ELSE IF Has(all_alias_mapping, Head(temp).k)
         THEN overide_param(Tail(temp), all_alias_mapping)
         ELSE <<Head(temp)>> \o overide_param(Tail(temp), all_alias_mapping)

\* one pass of the loop with a layer that overwrites the keys it shares
OverwritingLayer(all, subclass, ref, cell) ==
    IF ref[subclass] = "Absent" THEN all
    ELSE IF all = NoFlat THEN Flat(cell[ref[subclass]], ref[subclass])
    ELSE Flat(Merge(all.map, cell[ref[subclass]]), "new")

\* one pass of the loop: for subclass in cls.__mro__[:-1]
FlattenLayer(all, subclass, ref, cell) ==
    IF ref[subclass] = "Absent" THEN all
    ELSE IF all = NoFlat THEN Flat(cell[ref[subclass]], ref[subclass])
    ELSE Flat(Merge(all.map, overide_param(cell[ref[subclass]], all.map)), "new")

RECURSIVE FlattenLayers(_, _, _, _)
FlattenLayers(all, subclasses, ref, cell) ==
    IF subclasses = <<>> THEN all
    ELSE FlattenLayers(FlattenLayer(all, Head(subclasses), ref, cell),
                       Tail(subclasses), ref, cell)

get_all_alias_mapping_in_class(cls, ref, cell) == FlattenLayers(NoFlat, mro(cls), ref, cell)

----------------------------------------------------------------------------
(* BaseValidation: the functions of a class and their parameters           *)

\* for validation_class in cls.__mro__[:-2]: all_functions = all_functions | temp_functions
RECURSIVE AllFunctions(_, _)
AllFunctions(all_functions, classes) ==
    IF classes = <<>> THEN all_functions
    ELSE AllFunctions(Merge(all_functions, ClassFunctions(Head(classes))), Tail(classes))

get_all_functions_in_class(cls) == AllFunctions(<<>>, SubSeq(mro(cls), 1, Len(mro(cls)) - 1))

\* {parameter: t for parameter, t in annotations if parameter not in ('return',)}
Parameters(function) ==
    Select(function.annotations,
           Filter(Keys(function.annotations), Range(Keys(function.annotations)) \ {return}))

get_function_param_and_type(cls) ==
    [i \in 1..Len(get_all_functions_in_class(cls)) |->
        Item(get_all_functions_in_class(cls)[i].k,
             Parameters(get_all_functions_in_class(cls)[i].v))]

get_function_return_type(cls) ==
    [i \in 1..Len(get_all_functions_in_class(cls)) |->
        Item(get_all_functions_in_class(cls)[i].k,
             IF Has(get_all_functions_in_class(cls)[i].v.annotations, return)
             THEN Get(get_all_functions_in_class(cls)[i].v.annotations, return)
             ELSE "None")]

\* all_params[param] = None, or cls.alias_mapping[param] when it has the key
AliasOf(alias_mapping, param) ==
    IF Has(alias_mapping, param) THEN Get(alias_mapping, param) ELSE AliasNone

\* if param not in all_params: all_params[param] = ...
RECURSIVE AddParams(_, _, _)
AddParams(all_params, params, alias_mapping) ==
    IF params = <<>> THEN all_params
    ELSE AddParams(IF Has(all_params, Head(params)) THEN all_params
                   ELSE Put(all_params, Head(params), AliasOf(alias_mapping, Head(params))),
                   Tail(params), alias_mapping)

map_param_to_alias(cls, alias_mapping) ==
    AddParams(<<>>,
              Concat([i \in 1..Len(get_function_param_and_type(cls)) |->
                         Keys(get_function_param_and_type(cls)[i].v)]),
              alias_mapping)

----------------------------------------------------------------------------
(* _BaseValidationVerifier                                                 *)

\* for arg in self.alias_mapping[param]: columns[arg] = True never raises, so
\* param_results is a list of True, one per element (per character of a str)
param_results(value) ==
    IF value.kind = "str" THEN value.names[1] # <<>> ELSE value.names # <<>>

verify_alias_mapping(df, alias_mapping) ==
    IF Filter(Keys(alias_mapping),
              {alias_mapping[i].k : i \in {j \in 1..Len(alias_mapping) :
                                             ~param_results(alias_mapping[j].v)}}) # <<>>
    THEN Exc("KeyError", "were_not_in_the_dataframe",
             {alias_mapping[i].k : i \in {j \in 1..Len(alias_mapping) :
                                            ~param_results(alias_mapping[j].v)}}, FALSE)
    ELSE NoExc

\* missing_params: the parameters that are no column and whose args is None
missing_params(df, params) ==
    {params[i].k : i \in {j \in 1..Len(params) :
                            ~Contains(df.cols, params[j].k) /\ params[j].v = AliasNone}}

verify_column_ties_to_parameter(df, params) ==
    IF missing_params(df, params) # {}
    THEN Exc("KeyError", "missing_columns", missing_params(df, params), FALSE)
    ELSE NoExc

\* isinstance(p_type, pd.Series) and isinstance(p_type, pd.DataFrame) are False for
\* every annotation, a type: _has_series_type stays False and nothing is raised
verify_function_params_match(function_param_and_type) == NoExc

\* a verification that lets a function without a return type pass
lenient_return_match(function_return_type, function_param_and_type) ==
    IF \E i \in 1..Len(function_param_and_type) :
          /\ function_param_and_type[i].v = <<>>
          /\ function_return_type[i].v # "None"
    THEN Exc("TypeError", "return_type_must_match_the_parameter_types", {}, FALSE)
    ELSE NoExc

\* a missing return type; then all(isinstance(arg, pd.Series) for arg in parameter) is
\* True only for a function without parameters, whose return type is no Series object
verify_function_param_return_match(function_return_type, function_param_and_type) ==
    IF \E i \in 1..Len(function_return_type) : function_return_type[i].v = "None"
    THEN Exc("ValueError", "missing_a_return_type",
             {<<function_return_type[i].k>> : i \in {j \in 1..Len(function_return_type) :
                                                    function_return_type[j].v = "None"}}, FALSE)
    ELSE IF \E i \in 1..Len(function_param_and_type) : function_param_and_type[i].v = <<>>
    THEN Exc("TypeError", "return_type_must_match_the_parameter_types", {}, FALSE)
    ELSE NoExc

\* the first of the exceptions, in the order the verifications run
FirstExc(excs) ==
    IF \A i \in 1..Len(excs) : excs[i] = NoExc THEN NoExc
    ELSE excs[MinOf({i \in 1..Len(excs) : excs[i] # NoExc})]

\* the verifications with the one of the return types in front
return_first(df, function_return_type, function_param_and_type, params_in_class, alias_mapping) ==
    FirstExc(<<verify_function_param_return_match(function_return_type,
                                                  function_param_and_type),
               verify_alias_mapping(df, alias_mapping),
               verify_column_ties_to_parameter(df, params_in_class),
               verify_function_params_match(function_param_and_type)>>)

check_all(df, function_return_type, function_param_and_type, params_in_class, alias_mapping) ==
    FirstExc(<<verify_alias_mapping(df, alias_mapping),
               verify_column_ties_to_parameter(df, params_in_class),
               verify_function_params_match(function_param_and_type),
               verify_function_param_return_match(function_return_type,
                                                  function_param_and_type)>>)

----------------------------------------------------------------------------
(* BaseValidation._map_param_to_columns and _map_function_to_args          *)

\* the entry of one parameter: [param] for a column of that name, the alias as it is
\* when it is a str, else the alias names that are columns
ParamColumns(df, param, alias_names) ==
    IF Contains(df.cols, param) THEN AliasList(<<param>>)
    ELSE IF alias_names.kind = "str" THEN alias_names
    ELSE AliasList(Filter(alias_names.names, Range(df.cols)))

\* raise KE: a parameter that is no column and has no alias
UnmappedParams(df, params) ==
    {i \in 1..Len(params) : ~Contains(df.cols, params[i].k) /\ params[i].v = AliasNone}

Mapped(exc, map) == [exc |-> exc, map |-> map]

map_param_to_columns(df, params) ==
    IF UnmappedParams(df, params) # {}
    THEN Mapped(Exc("KeyError", "param", {params[MinOf(UnmappedParams(df, params))].k}, FALSE),
                <<>>)
    ELSE Mapped(NoExc,
                [i \in 1..Len(params) |->
                    Item(params[i].k, ParamColumns(df, params[i].k, params[i].v))])

\* the parameters of the check with len(fields) == 1, as param -> fields[0]
RECURSIVE one_to_one(_, _)
one_to_one(param_mapping, param_set) ==
    IF param_mapping = <<>> THEN <<>>
    ELSE IF Has(param_set, Head(param_mapping).k) /\ Len(Head(param_mapping).v.names) = 1
         THEN <<Item(Head(param_mapping).k, Head(param_mapping).v.names[1])>>
              \o one_to_one(Tail(param_mapping), param_set)
         ELSE one_to_one(Tail(param_mapping), param_set)

\* the parameters of the check with len(fields) > 1, as param -> fields
RECURSIVE one_to_many(_, _)
one_to_many(param_mapping, param_set) ==
    IF param_mapping = <<>> THEN <<>>
    ELSE IF Has(param_set, Head(param_mapping).k) /\ Len(Head(param_mapping).v.names) > 1
         THEN <<Item(Head(param_mapping).k, Head(param_mapping).v.names)>>
              \o one_to_many(Tail(param_mapping), param_set)
         ELSE one_to_many(Tail(param_mapping), param_set)

\* DirlinFormatter.convert_dict_to_records
convert_dict_to_records(one_to_many_param) ==
    IF ZipRecords(one_to_many_param) = <<>> THEN <<(<<>>)>>
    ELSE ZipRecords(one_to_many_param)

\* arg_sets = [one_to_one | one_to_many_args for one_to_many_args in flat_one_to_many]
ArgSets(static, flat_one_to_many) ==
    [i \in 1..Len(flat_one_to_many) |-> Merge(static, flat_one_to_many[i])]

FunctionArgs(check_mapping, param_mapping) ==
    [i \in 1..Len(check_mapping) |->
        Item(check_mapping[i].k,
             ArgSets(one_to_one(param_mapping, check_mapping[i].v),
                     convert_dict_to_records(one_to_many(param_mapping, check_mapping[i].v))))]

map_function_to_args(cls, mapped) ==
    IF mapped.exc # NoExc THEN mapped
    ELSE Mapped(NoExc, FunctionArgs(get_function_param_and_type(cls), mapped.map))

----------------------------------------------------------------------------
(* DirlinFormatter: the reference name of an argument set                  *)

\* str.lower() on one token
Lower(token) ==
    CASE token = "Total" -> "total"
      [] token = "Price" -> "price"
      [] token = "Cost" -> "cost"
      [] token = "Old" -> "old"
      [] token = "A" -> "a"
      [] token = "B" -> "b"
      [] token = "C" -> "c"
      [] OTHER -> token

RECURSIVE lstrip(_)
lstrip(name) == IF name # <<>> /\ Head(name) = "-" THEN lstrip(Tail(name)) ELSE name

RECURSIVE rstrip(_)
rstrip(name) ==
    IF name # <<>> /\ name[Len(name)] = "-" THEN rstrip(SubSeq(name, 1, Len(name) - 1))
    ELSE name

\* name.strip("-").lower().replace(" ", "_")
convert_string_to_python_readable(name) ==
    [i \in 1..Len(rstrip(lstrip(name))) |->
        IF rstrip(lstrip(name))[i] = " " THEN "_" ELSE Lower(rstrip(lstrip(name))[i])]

\* "_".join(names)
RECURSIVE Join(_)
Join(names) ==
    IF names = <<>> THEN <<>>
    ELSE IF Len(names) = 1 THEN names[1]
    ELSE names[1] \o <<"_">> \o Join(Tail(names))

convert_dict_to_ref_names(arg_pair) ==
    Join([i \in 1..Len(arg_pair) |-> convert_string_to_python_readable(arg_pair[i].v)])

----------------------------------------------------------------------------
(* BaseValidation._process_function_with_args                              *)

\* _ResultWrapper
ResultWrapper(result, parameters_used, function_name) ==
    [result |-> result, parameters_used |-> parameters_used, function_name |-> function_name]

\* {check: True if series-based, False if scalar}; a function with both raises
HasSeries(args) == \E i \in 1..Len(args) : args[i].v = "pd.Series"

HasScalar(args) == \E i \in 1..Len(args) : args[i].v # "pd.Series"

\* a mapping that takes a function with a series parameter and a scalar parameter for a
\* scalar function instead of raising
lenient_function_type(function_param_and_type) ==
    Mapped(NoExc,
           [i \in 1..Len(function_param_and_type) |->
               Item(function_param_and_type[i].k, ~HasScalar(function_param_and_type[i].v))])

map_function_to_function_type(function_param_and_type) ==
    IF \E i \in 1..Len(function_param_and_type) :
          HasSeries(function_param_and_type[i].v) /\ HasScalar(function_param_and_type[i].v)
    THEN Mapped(Exc("ValueError", "both_a_scalar_parameter_and_a_series_parameter", {}, FALSE),
                <<>>)
    ELSE Mapped(NoExc,
                [i \in 1..Len(function_param_and_type) |->
                    Item(function_param_and_type[i].k,
                         ~HasScalar(function_param_and_type[i].v))])

\* temp.to_dict(orient='records'): a dict per row, and none of a frame without columns
Records(df, column_rename_map) ==
    IF column_rename_map = <<>> THEN <<>>
    ELSE [r \in 1..df.rows |->
            [i \in 1..Len(column_rename_map) |->
                Item(column_rename_map[i].v, Cell(column_rename_map[i].k, r))]]

\* the parameters of the function that the keyword arguments leave out
Unbound(function, keywords) == Range(Keys(Parameters(function))) \ Range(keywords)

\* results = [function(**args) for args in list_of_temp_args]
ScalarResults(function, df, column_rename_map) ==
    IF Range(Keys(column_rename_map)) \ Range(df.cols) # {}
    THEN Applied(Exc("KeyError", "not_in_index",
                     Range(Keys(column_rename_map)) \ Range(df.cols), FALSE), FALSE, <<>>)
    ELSE IF Records(df, column_rename_map) = <<>> THEN Applied(NoExc, FALSE, <<>>)
    ELSE IF Unbound(function, Values(column_rename_map)) # {}
    THEN Applied(Exc("TypeError", "missing_required_argument",
                     Unbound(function, Values(column_rename_map)), FALSE), TRUE, <<>>)
    ELSE IF \E r \in 1..df.rows : Raises(function, Records(df, column_rename_map)[r])
    THEN Applied(Raised(function), TRUE, <<>>)
    ELSE Applied(NoExc, TRUE,
                 [r \in 1..df.rows |-> Invoke(function, Records(df, column_rename_map)[r])])

\* the values of row r of the series handed to the function
SeriesRow(args_pair, r) ==
    [i \in 1..Len(args_pair) |-> Item(args_pair[i].k, Cell(args_pair[i].v, r))]

\* result=function(**args) with args = {param: df[column]}
SeriesResults(function, df, args_pair) ==
    IF Unbound(function, Keys(args_pair)) # {}
    THEN Applied(Exc("TypeError", "missing_required_argument",
                     Unbound(function, Keys(args_pair)), FALSE), TRUE, <<>>)
    ELSE IF \E r \in 1..df.rows : Raises(function, SeriesRow(args_pair, r))
    THEN Applied(Raised(function), TRUE, <<>>)
    ELSE Applied(NoExc, TRUE,
                 [r \in 1..df.rows |-> Invoke(function, SeriesRow(args_pair, r))])

\* d = [deliverable, calls, exc]
Deliverable(calls) == [deliverable |-> <<>>, calls |-> calls, exc |-> NoExc]

\* deliverable.append(_ResultWrapper(...))
Deliver(d, function_name, args_pair, r) ==
    IF r.exc # NoExc
    THEN [d EXCEPT !.exc = r.exc,
                   !.calls = Called(@, [name |-> function_name], args_pair, r)]
    ELSE [d EXCEPT !.deliverable =
                       Append(@, ResultWrapper(r.val, convert_dict_to_ref_names(args_pair),
                                               function_name)),
                   !.calls = Called(@, [name |-> function_name], args_pair, r)]

RECURSIVE process_function_as_scalar_function(_, _, _, _, _)
process_function_as_scalar_function(d, function, function_name, df, args_list) ==
    IF args_list = <<>> \/ d.exc # NoExc THEN d
    ELSE process_function_as_scalar_function(
            Deliver(d, function_name, Head(args_list),
                    ScalarResults(function, df, Reverse(Head(args_list)))),
            function, function_name, df, Tail(args_list))

\* new_keys: reference name -> args_pair, the last pair of a name replacing the others
new_keys(args_list) ==
    Values(FromItems([i \in 1..Len(args_list) |->
                         Item(convert_dict_to_ref_names(args_list[i]), args_list[i])]))

\* df[column] of a column the frame does not have
AbsentColumns(df, args_list) ==
    UNION {Range(Values(args_list[i])) : i \in 1..Len(args_list)} \ Range(df.cols)

RECURSIVE SeriesCalls(_, _, _, _, _)
SeriesCalls(d, function, function_name, df, args_list) ==
    IF args_list = <<>> \/ d.exc # NoExc THEN d
    ELSE SeriesCalls(
            Deliver(d, function_name, Head(args_list),
                    SeriesResults(function, df, Head(args_list))),
            function, function_name, df, Tail(args_list))

process_function_as_series_function(d, function, function_name, df, args_list) ==
    IF AbsentColumns(df, args_list) # {}
    THEN [d EXCEPT !.exc = Exc("KeyError", "column", AbsentColumns(df, args_list), FALSE)]
    ELSE SeriesCalls(d, function, function_name, df, new_keys(args_list))

\* a collection that drops the exception of a function and goes on with the next one
CollectAndGoOn(a, d) ==
    [a EXCEPT !.calls = d.calls,
              !.results =
                  Merge(@, [i \in 1..Len(d.deliverable) |->
                               Item(d.deliverable[i].parameters_used, d.deliverable[i])])]

\* temp = {r.parameters_used: r for r in result}; results = results | temp
Collect(a, d) ==
    IF d.exc # NoExc THEN [a EXCEPT !.exc = d.exc, !.calls = d.calls]
    ELSE [a EXCEPT !.calls = d.calls,
                   !.results =
                       Merge(@, [i \in 1..Len(d.deliverable) |->
                                    Item(d.deliverable[i].parameters_used, d.deliverable[i])])]

\* for function_name, function in function_map.items()
RECURSIVE ProcessFunctions(_, _, _, _, _)
ProcessFunctions(a, df, function_map, function_type_map, function_args) ==
    IF function_map = <<>> \/ a.exc # NoExc THEN a
    ELSE ProcessFunctions(
            Collect(a,
                    IF Get(function_type_map, Head(function_map).k)
                    THEN process_function_as_series_function(
                            Deliverable(a.calls), Head(function_map).v, Head(function_map).k,
                            df, Get(function_args, Head(function_map).k))
                    ELSE process_function_as_scalar_function(
                            Deliverable(a.calls), Head(function_map).v, Head(function_map).k,
                            df, Get(function_args, Head(function_map).k))),
            df, Tail(function_map), function_type_map, function_args)

process_function_with_args(df, function_map, function_type_map, function_args) ==
    ProcessFunctions([results |-> <<>>, calls |-> <<>>, exc |-> NoExc],
                     df, function_map, function_type_map, function_args)

----------------------------------------------------------------------------
(* BaseValidation._run_validation, after cls.alias_mapping has been set    *)

Outcome(exc, args, calls, res) == [exc |-> exc, args |-> args, calls |-> calls, results |-> res]

\* STEP 3: return results, which an exception on the way leaves unreturned
Processed(function_args, a) ==
    Outcome(a.exc, function_args, a.calls, IF a.exc = NoExc THEN a.results ELSE <<>>)

\* STEP 2
Initialized(cls, df, function_args, function_type_map) ==
    IF function_args.exc # NoExc THEN Outcome(function_args.exc, <<>>, <<>>, <<>>)
    ELSE IF function_type_map.exc # NoExc
    THEN Outcome(function_type_map.exc, function_args.map, <<>>, <<>>)
    ELSE Processed(function_args.map,
                   process_function_with_args(df, get_all_functions_in_class(cls),
                                              function_type_map.map, function_args.map))

\* STEP 1
Verified(cls, df, verify, params_in_class) ==
    IF verify # NoExc THEN Outcome(verify, <<>>, <<>>, <<>>)
    ELSE Initialized(cls, df,
                     map_function_to_args(cls, map_param_to_columns(df, params_in_class)),
                     map_function_to_function_type(get_function_param_and_type(cls)))

run_validation(cls, df, alias_mapping) ==
    Verified(cls, df,
             check_all(df, get_function_return_type(cls), get_function_param_and_type(cls),
                       map_param_to_alias(cls, alias_mapping), alias_mapping),
             map_param_to_alias(cls, alias_mapping))

----------------------------------------------------------------------------
(* BaseValidation.run_summary and run_error_log.  A frame built with an    *)
(* index of its own has the field index, the labels of its rows in order;  *)
(* the others have the labels 0, 1, ...  A result is pd.Series(results)    *)
(* or what a series function returns of the columns: its labels are those  *)
(* of the frame for a series function and 0, 1, ... for a scalar one.      *)

Reindexed(df, index) == [cols |-> df.cols, rows |-> df.rows, index |-> index]

Index(df) == IF "index" \in DOMAIN df THEN df.index ELSE [p \in 1..df.rows |-> p - 1]

\* the labels of r.result
ResultIndex(df, function_type_map, r) ==
    IF Get(function_type_map, r.function_name) THEN Index(df)
    ELSE [p \in 1..Len(r.result) |-> p - 1]

Position(index, label) == MinOf({p \in 1..Len(index) : index[p] = label})

Reported(exc, log) == [exc |-> exc, log |-> log]

\* df[~r.result]: the positions of the rows of df it keeps.  A boolean key with the
\* labels of the frame is a mask; with other labels it is reindexed by the labels of
\* the frame, which fails when a label of the frame is missing.  A key of strings has
\* no ~, a key of integers names columns, and an empty key is of dtype float64 without
\* ~ before pandas 2 and since then an empty list of columns, which keeps every row
Failing(df, result_index, r, returns, pandas2) ==
    IF r.result = <<>>
    THEN IF pandas2 THEN Reported(NoExc, [p \in 1..df.rows |-> p])
         ELSE Reported(Exc("TypeError", "bad_operand_type_for_unary_~", {}, FALSE), <<>>)
    ELSE IF returns = "str"
    THEN Reported(Exc("TypeError", "bad_operand_type_for_unary_~", {}, FALSE), <<>>)
    ELSE IF returns = "int"
    THEN Reported(Exc("KeyError", "not_in_index", {}, FALSE), <<>>)
    ELSE IF result_index = Index(df)
    THEN Reported(NoExc, Filter([p \in 1..df.rows |-> p], {p \in 1..df.rows : ~r.result[p]}))
    ELSE IF Range(Index(df)) \ Range(result_index) # {}
    THEN Reported(Exc("IndexingError", "unalignable_boolean_series", {}, FALSE), <<>>)
    ELSE Reported(NoExc,
                  Filter([p \in 1..df.rows |-> p],
                         {p \in 1..df.rows :
                            ~r.result[Position(result_index, Index(df)[p])]}))

\* temp_df["Check"] = r.function_name; results_filter.append(temp_df)
Checked(log, kept, function_name) ==
    IF kept.exc # NoExc THEN kept
    ELSE Reported(NoExc,
                  log.log \o [i \in 1..Len(kept.log) |->
                                 [row |-> kept.log[i], Check |-> function_name]])

\* for check_name, r in results.items()
RECURSIVE FilterResults(_, _, _, _, _, _)
FilterResults(log, df, function_map, function_type_map, wrappers, pandas2) ==
    IF wrappers = <<>> \/ log.exc # NoExc THEN log
    ELSE FilterResults(
            Checked(log,
                    Failing(df, ResultIndex(df, function_type_map, Head(wrappers).v),
                            Head(wrappers).v,
                            Returns(Get(function_map, Head(wrappers).v.function_name)),
                            pandas2),
                    Head(wrappers).v.function_name),
            df, function_map, function_type_map, Tail(wrappers), pandas2)

\* results = self._run_validation(df); pd.concat(results_filter, ignore_index=True)
run_error_log(cls, df, out, pandas2) ==
    IF out.exc # NoExc THEN Reported(out.exc, <<>>)
    ELSE IF out.results = <<>>
    THEN Reported(Exc("ValueError", "no_objects_to_concatenate", {}, FALSE), <<>>)
    ELSE FilterResults(Reported(NoExc, <<>>), df, get_all_functions_in_class(cls),
                       map_function_to_function_type(get_function_param_and_type(cls)).map,
                       out.results, pandas2)

\* r.result.sum(): the number of True of a boolean result, the sum of an integer one
RECURSIVE Total(_)
Total(values) == IF values = <<>> THEN 0 ELSE Head(values) + Total(Tail(values))

Passed(r, returns) == IF returns = "bool" THEN Count(r.result) ELSE Total(r.result)

\* the row of one result: count(), sum() and len() - sum() of r.result
SummaryRow(check_name, r, returns) ==
    [check_name |-> check_name,
     function_name |-> r.function_name,
     validated |-> Len(r.result),
     passed |-> Passed(r, returns),
     failed |-> Len(r.result) - Passed(r, returns)]

\* results = self._run_validation(df); the rows of the summary, which sort_values
\* orders by their number of failed records
run_summary(cls, df, out) ==
    IF out.exc # NoExc THEN Reported(out.exc, {})
    ELSE IF out.results = <<>>
    THEN Reported(Exc("KeyError", "Total Records Failed", {}, FALSE), {})
    ELSE IF \E i \in 1..Len(out.results) :
               /\ out.results[i].v.result # <<>>
               /\ Returns(Get(get_all_functions_in_class(cls),
                              out.results[i].v.function_name)) = "str"
    THEN Reported(Exc("TypeError", "unsupported_operand_int_minus_str", {}, FALSE), {})
    ELSE Reported(NoExc,
                  {SummaryRow(out.results[i].k, out.results[i].v,
                              Returns(Get(get_all_functions_in_class(cls),
                                          out.results[i].v.function_name)))
                     : i \in 1..Len(out.results)})

----------------------------------------------------------------------------
(* BaseValidation._map_param_to_columns of validation/manager.py, the copy *)
(* that test_simple_case.py imports.  all_params[param] is the list object *)
(* of cls.alias_mapping[param], and alias_names.append(column) changes it. *)

\* base_functions | curr_functions
manager_functions(cls) == Merge(ClassFunctions(mro(cls)[2]), ClassFunctions(cls))

\* _get_all_params_in_class
manager_params(cls, alias_mapping) ==
    AddParams(<<>>,
              Concat([i \in 1..Len(manager_functions(cls)) |->
                         Keys(Parameters(manager_functions(cls)[i].v))]),
              alias_mapping)

\* the alias lists after alias_names.append(column), which runs for the column that has
\* the name of the parameter
Appended(df, params, alias_mapping) ==
    [i \in 1..Len(alias_mapping) |->
        IF /\ Has(params, alias_mapping[i].k)
           /\ alias_mapping[i].v.kind = "list"
           /\ Contains(df.cols, alias_mapping[i].k)
        THEN Item(alias_mapping[i].k,
                  AliasList(Append(alias_mapping[i].v.names, alias_mapping[i].k)))
        ELSE alias_mapping[i]]

\* the value that the comprehension leaves under param: the one of the last column
LastValue(df, param, alias_names) ==
    IF df.cols[Len(df.cols)] = param
    THEN IF alias_names.kind = "None" THEN AliasList(<<param>>)
         ELSE IF alias_names.kind = "list" THEN AliasNone
         ELSE alias_names
    ELSE alias_names

Bound_to(map, alias_mapping) == [map |-> map, alias_mapping |-> alias_mapping]

manager_map_param_to_columns(cls, df, alias_mapping) ==
    IF df.cols = <<>> THEN Bound_to(<<>>, alias_mapping)
    ELSE Bound_to(
            [i \in 1..Len(manager_params(cls, alias_mapping)) |->
                Item(manager_params(cls, alias_mapping)[i].k,
                     LastValue(df, manager_params(cls, alias_mapping)[i].k,
                               AliasOf(Appended(df, manager_params(cls, alias_mapping),
                                                alias_mapping),
                                       manager_params(cls, alias_mapping)[i].k)))],
            Appended(df, manager_params(cls, alias_mapping), alias_mapping))

----------------------------------------------------------------------------
(* Check.__init__ of base_check.py, which Validation imports, and of       *)
(* src/pipeline/data_quality/check.py, on the signature of the wrapped     *)
(* function: the names of its parameters in order, the parameters that     *)
(* have an annotation, and whether the return value has one.               *)

arg_self == <<"self">>
arg_cls == <<"cls">>
option == <<"option">>
option_threshold == <<"option", "_", "threshold">>
flag == <<"flag">>

Signature(parameters, typed, returns) ==
    [name |-> "check_function", parameters |-> parameters, typed |-> typed,
     returns |-> returns]

\* option_keywords: a str, a list of str, None or a value of another type
Keywords_str(name) == [kind |-> "str", names |-> <<name>>]
Keywords_list(names) == [kind |-> "list", names |-> names]
Keywords_None == [kind |-> "None", names |-> <<>>]
Keywords_int == [kind |-> "int", names |-> <<>>]

\* inspect.get_annotations(check_function)
get_annotations(function) ==
    [i \in 1..Len(Filter(function.parameters, function.typed)) |->
        Item(Filter(function.parameters, function.typed)[i], "int")]
    \o (IF function.returns THEN <<Item(return, "bool")>> ELSE <<>>)

\* the value or the exception of a step of the constructor
Stepped(exc, val) == [exc |-> exc, val |-> val]

handle_class_signatures(param_signatures) ==
    IF param_signatures = <<>>
    THEN Stepped(Exc("KeyError", "has_no_parameters", {}, FALSE), None)
    ELSE IF Head(param_signatures) \in {arg_self, arg_cls}
    THEN Stepped(NoExc, Head(param_signatures))
    ELSE Stepped(NoExc, None)

handle_string_to_list_conversion(multi_type_param) ==
    IF multi_type_param.kind \in {"str", "list", "None"}
    THEN Stepped(NoExc, multi_type_param.names)
    ELSE Stepped(Exc("TypeError", "can_only_handle_string_or_list", {}, FALSE), <<>>)

\* {param: ptype for param, ptype in annotations.items()
\*  if param not in self._arg_option_signature and param != "return"}
expected_arguments(annotations, arg_option_signature) ==
    Select(annotations,
           Filter(Keys(annotations),
                  Range(Keys(annotations)) \ (Range(arg_option_signature) \cup {return})))

\* [sig for sig in parameters if sig not in option signature and not in ('self', 'cls')]
function_signature_check(param_signatures, arg_option_signature) ==
    Filter(param_signatures,
           Range(param_signatures) \ (Range(arg_option_signature) \cup {arg_self, arg_cls}))

\* what the caller of Check(...) has afterwards: the object or the exception
Constructed(module, function, option_keywords, exc, arguments) ==
    [op |-> "Check", module |-> module, function |-> function,
     option_keywords |-> option_keywords, exc |-> exc,
     exists |-> exc = NoExc,
     expected_arguments |-> IF exc = NoExc THEN arguments ELSE <<>>,
     called |-> FALSE, first |-> None]

NoCheck ==
    [op |-> "init", module |-> "", function |-> Signature(<<>>, {}, FALSE),
     option_keywords |-> Keywords_None, exc |-> NoExc, exists |-> FALSE,
     expected_arguments |-> <<>>, called |-> FALSE, first |-> None]

\* base_check.Check.__init__
base_check_init(function, option_keywords, class_signature, option_signature) ==
    Constructed("base_check", function, option_keywords,
                FirstExc(<<class_signature.exc, option_signature.exc>>),
                expected_arguments(get_annotations(function), option_signature.val))

\* check.Check.__init__ of src/pipeline/data_quality
check_init(function, option_keywords, option_signature) ==
    Constructed("check", function, option_keywords,
                IF option_signature.exc # NoExc THEN option_signature.exc
                ELSE IF Len(expected_arguments(get_annotations(function),
                                               option_signature.val))
                        # Len(function_signature_check(function.parameters,
                                                       option_signature.val))
                THEN Exc("IndexError", "one_or_more_parameters_are_not_typed", {}, FALSE)
                ELSE NoExc,
                expected_arguments(get_annotations(function), option_signature.val))

\* check.Check.run(**kwargs): the class signature is looked at first, then the function
\* is called, with the name of its first parameter in front when that is self or cls
check_run(check, class_signature) ==
    [check EXCEPT !.op = "run", !.exc = class_signature.exc,
                  !.called = class_signature.exc = NoExc,
                  !.first = class_signature.val]

----------------------------------------------------------------------------
(* Pipeline of quick_pipeline.py, with one Validation object that the      *)
(* caller passes with every report.  add_report_set is called with its     *)
(* defaults: infer_shared=True, no key_column and no field_mapping.        *)

\* Report(name_convention, field_mapping, df=df)
Report_init(name_convention, field_mapping, df) ==
    [name_convention |-> name_convention, field_mapping |-> field_mapping, df |-> df]

\* report.format(df): df.rename(columns=self.field_mapping) of a report without typed
\* columns
format(report) ==
    [report.df EXCEPT
        !.cols = [i \in 1..Len(report.df.cols) |->
                     IF Has(report.field_mapping, report.df.cols[i])
                     THEN Get(report.field_mapping, report.df.cols[i])
                     ELSE report.df.cols[i]]]

\* Pipeline.__init__: the two dicts, and what the last call was asked and gave
NoPipeline ==
    [report_name_validation_pairs |-> <<>>,
     report_name_results_pairs |-> <<>>,
     op |-> "init",
     report_name |-> "",
     exc |-> NoExc,
     log |-> <<>>]

\* iii) add to current context after init, which an exception of the run leaves out;
\* o is the Validation object after validation.run
add_report_set(p, report, o) ==
    IF o.exc # NoExc
    THEN [p EXCEPT !.op = "add_report_set", !.report_name = report.name_convention,
                   !.exc = o.exc, !.log = <<>>]
    ELSE [p EXCEPT !.report_name_validation_pairs =
                       Put(@, report.name_convention, "validation"),
                   !.report_name_results_pairs = Put(@, report.name_convention, o.results),
                   !.op = "add_report_set", !.report_name = report.name_convention,
                   !.exc = NoExc, !.log = <<>>]

\* pd.concat of validation.generate_error_log() for every pair; g is the error log of
\* the object that every pair holds
AllLogs(p, g) ==
    IF g.exc # NoExc THEN g
    ELSE Logged(NoExc, Concat([i \in 1..Len(p.report_name_validation_pairs) |-> g.log]))

\* Pipeline.run_error_log(report_name), "None" for the call without a name
pipeline_run_error_log(p, g, report_name) ==
    IF p.report_name_validation_pairs = <<>>
    THEN Logged(Exc("IndexError", "no_report_validation_pairs", {}, FALSE), <<>>)
    ELSE IF report_name = "None" THEN AllLogs(p, g)
    ELSE IF ~Has(p.report_name_validation_pairs, report_name)
    THEN Logged(Exc("KeyError", "report_name_does_not_exist", {<<report_name>>}, FALSE), <<>>)
    ELSE g

----------------------------------------------------------------------------
(* The Validation object as a state machine *)

\* Validation.__init__
NewValidation(check, shared_param) ==
    [checks_performed |-> check,
     shared_params |-> shared_param,
     arg_map |-> <<>>,
     shared_param_column_map |-> <<>>,
     option_map |-> <<>>,
     df_columns |-> NoneColumns,
     column_base_name_map |-> NoneMap,
     param_base_name_map |-> NoneMap,
     flag_infer_shared_params |-> FALSE,
     results |-> <<>>,
     flag_run_processed |-> FALSE,
     exc |-> NoExc,
     calls |-> <<>>]

Self ==
    [checks_performed |-> checks_performed,
     shared_params |-> shared_params,
     arg_map |-> arg_map,
     shared_param_column_map |-> shared_param_column_map,
     option_map |-> option_map,
     df_columns |-> df_columns,
     column_base_name_map |-> column_base_name_map,
     param_base_name_map |-> param_base_name_map,
     flag_infer_shared_params |-> flag_infer_shared_params,
     results |-> results,
     flag_run_processed |-> flag_run_processed,
     exc |-> NoExc,
     calls |-> <<>>]

NoDF == DF(<<>>, 0)

Last(op, df, infer_shared, exc, calls, log) ==
    [op |-> op, df |-> df, infer_shared |-> infer_shared, exc |-> exc, calls |-> calls,
     log |-> log]

vars_validation ==
    <<checks_performed, shared_params, arg_map, shared_param_column_map, option_map,
      df_columns, column_base_name_map, param_base_name_map, flag_infer_shared_params,
      results, flag_run_processed, runs, last, pipeline>>

vars_bv == <<alias_ref, alias_cell, set_count, bv_last>>

BVLast(op, cls, df, layers, alias_mapping, out) ==
    [op |-> op, cls |-> cls, df |-> df, layers |-> layers, alias_mapping |-> alias_mapping,
     exc |-> out.exc, args |-> out.args, calls |-> out.calls, results |-> out.results,
     log |-> <<>>]

NoOutcome == Outcome(NoExc, <<>>, <<>>, <<>>)

\* Validation.__init__ with the checks and the shared parameters given
InitValidation(check, shared_param) ==
    /\ checks_performed = check
    /\ shared_params = shared_param
    /\ arg_map = <<>>
    /\ shared_param_column_map = <<>>
    /\ option_map = <<>>
    /\ df_columns = NoneColumns
    /\ column_base_name_map = NoneMap
    /\ param_base_name_map = NoneMap
    /\ flag_infer_shared_params = FALSE
    /\ results = <<>>
    /\ flag_run_processed = FALSE
    /\ runs = 0
    /\ last = Last("init", NoDF, FALSE, NoExc, <<>>, <<>>)
    /\ pipeline = NoPipeline

\* the class bodies: BaseValidation.alias_mapping = dict(), the alias_mapping that the
\* bodies of the two layers declare, and none in the body of SingleLayerObject
Declared(first, second) ==
    /\ alias_ref = [c \in Classes |->
                       CASE c = TestBaseValidation -> IF first = Absent THEN "Absent" ELSE c
                         [] c = TestSecondLayer -> IF second = Absent THEN "Absent" ELSE c
                         [] c = SingleLayerObject -> "Absent"
                         [] OTHER -> c]
    /\ alias_cell = [c \in Classes |->
                       CASE c = TestBaseValidation -> IF first = Absent THEN <<>> ELSE first
                         [] c = TestSecondLayer -> IF second = Absent THEN <<>> ELSE second
                         [] OTHER -> <<>>]
    /\ set_count = 0
    /\ bv_last = BVLast("init", BaseValidation, NoDF, <<>>, <<>>, NoOutcome)
    /\ made = NoCheck

Init ==
    /\ \E check \in CheckLists, shared_param \in SharedParams :
          InitValidation(check, shared_param)
    /\ Declared(Absent, Absent)

\* the fields of self after the call, and what the caller saw
Assign(o, df, infer_shared) ==
    /\ arg_map' = o.arg_map
    /\ shared_param_column_map' = o.shared_param_column_map
    /\ option_map' = o.option_map
    /\ df_columns' = o.df_columns
    /\ column_base_name_map' = o.column_base_name_map
    /\ param_base_name_map' = o.param_base_name_map
    /\ flag_infer_shared_params' = o.flag_infer_shared_params
    /\ results' = o.results
    /\ flag_run_processed' = o.flag_run_processed
    /\ last' = Last("run", df, infer_shared, o.exc, o.calls, <<>>)

Run(df, infer_shared) ==
    /\ runs < MaxRuns
    /\ Assign(run(Self, df, infer_shared), df, infer_shared)
    /\ runs' = runs + 1
    /\ UNCHANGED <<checks_performed, shared_params, pipeline>>
    /\ UNCHANGED vars_bv
    /\ UNCHANGED made

Report(g) == last' = Last("generate_error_log", last.df, last.infer_shared, g.exc, <<>>, g.log)

GenerateErrorLog ==
    /\ last.op # "generate_error_log"
    /\ Report(generate_error_log(Self))
    /\ UNCHANGED <<checks_performed, shared_params, arg_map, shared_param_column_map,
                   option_map, df_columns, column_base_name_map, param_base_name_map,
                   flag_infer_shared_params, results, flag_run_processed, runs, pipeline>>
    /\ UNCHANGED vars_bv
    /\ UNCHANGED made

Next ==
    \/ \E df \in Datasets, infer_shared \in BOOLEAN : Run(df, infer_shared)
    \/ GenerateErrorLog

Spec == Init /\ [][Next]_vars

----------------------------------------------------------------------------
(* The rule-set classes as a state machine *)

InitBV ==
    /\ InitValidation(<<std_check_function>>, <<>>)
    /\ \E first \in AliasDeclarations, second \in AliasDeclarations : Declared(first, second)

\* the alias_mapping dicts in the __dict__ of the classes of cls.__mro__[:-1]
RECURSIVE Layers(_, _, _)
Layers(subclasses, ref, cell) ==
    IF subclasses = <<>> THEN <<>>
    ELSE IF ref[Head(subclasses)] = "Absent" THEN Layers(Tail(subclasses), ref, cell)
    ELSE <<cell[ref[Head(subclasses)]]>> \o Layers(Tail(subclasses), ref, cell)

\* cls.alias_mapping = cls._get_all_alias_mapping_in_class(), then the validation
Validate(cls, df, flat) ==
    /\ alias_ref' = [alias_ref EXCEPT ![cls] = IF flat.obj = "new" THEN cls ELSE flat.obj]
    /\ alias_cell' = [alias_cell EXCEPT ![cls] = IF flat.obj = "new" THEN flat.map
                                                ELSE IF flat.obj = cls THEN @ ELSE <<>>]
    /\ bv_last' = BVLast("run_validation", cls, df,
                         Layers(mro(cls), alias_ref, alias_cell), flat.map,
                         run_validation(cls, df, flat.map))
    /\ UNCHANGED made

RunValidation(cls, df) ==
    /\ Validate(cls, df, get_all_alias_mapping_in_class(cls, alias_ref, alias_cell))
    /\ UNCHANGED set_count
    /\ UNCHANGED vars_validation

\* the dict object that instance.alias_mapping is: the one of the first class of the
\* MRO that has the attribute
Lookup(cls) ==
    alias_ref[mro(cls)[MinOf({i \in 1..Len(mro(cls)) : alias_ref[mro(cls)[i]] # "Absent"})]]

\* the assignments a caller makes: alias_mapping["price"] = ["Total Price"]
Assigned == {price}

Columns(param) == IF param = price THEN <<Total_Price>> ELSE <<Total_Cost>>

\* instance.alias_mapping[param] = [column] on an instance of cls
SetAlias(cls, param) ==
    /\ set_count < MaxSets
    /\ set_count' = set_count + 1
    /\ alias_cell' = [alias_cell EXCEPT ![Lookup(cls)] = Put(@, param, AliasList(Columns(param)))]
    /\ bv_last' = BVLast("set_alias", cls, NoDF, <<>>, <<>>, NoOutcome)
    /\ UNCHANGED made
    /\ UNCHANGED alias_ref
    /\ UNCHANGED vars_validation

NextBV ==
    \/ \E cls \in RuleSets, df \in Reports : RunValidation(cls, df)
    \/ \E cls \in RuleSets, param \in Assigned : SetAlias(cls, param)

SpecBV == InitBV /\ [][NextBV]_vars

----------------------------------------------------------------------------
(* The rule sets of test_simple_case.py and their reports as a state       *)
(* machine: run_validation, run_summary and run_error_log on the frames.   *)

\* the frame of the orders with its rows labelled in reverse, as after a sort
resorted_df == Reindexed(totals_df, [p \in 1..MaxRows |-> MaxRows - p])

OrderFrames == {totals_df, first_order_df, pairs_df, resorted_df}

same_alias == <<Item(price, AliasList(<<Total_Price>>)), Item(cost, AliasList(<<Total_Price>>))>>

OrderSets == {TestBaseValidation, TestSecondLayer, MixedLayerObject, RatioLayerObject,
              StrictSeriesObject}

ExampleSets == {SimpleSingleLayerObject, BadSingleLayerObject, BadSeriesLayerObject,
                BadSiblingObject}

\* the chains of layers on TestBaseValidation
LayerSets == {TestBaseValidation, TestSecondLayer, TestThirdLayer, OverrideLayer}

ReportSets == OrderSets \cup ExampleSets \cup LayerSets

\* the rule sets on the frames they are written for
Cases == (OrderSets \X OrderFrames) \cup (ExampleSets \X {example_df})

\* the alias_mapping of the class bodies
ClassAlias(cls, first) ==
    CASE cls = TestBaseValidation -> first
      [] cls \in {SimpleSingleLayerObject, BadSeriesLayerObject, BadSiblingObject} ->
            example_alias
      [] cls \in {MixedLayerObject, RatioLayerObject, StrictSeriesObject} -> totals_alias
      [] cls = BaseValidation -> <<>>
      [] OTHER -> Absent

DeclaredReports(first) ==
    /\ alias_ref = [cls \in ReportSets \cup {BaseValidation} |->
                       IF ClassAlias(cls, first) = Absent THEN "Absent" ELSE cls]
    /\ alias_cell = [cls \in ReportSets \cup {BaseValidation} |->
                        IF ClassAlias(cls, first) = Absent THEN <<>>
                        ELSE ClassAlias(cls, first)]
    /\ set_count = 0
    /\ bv_last = BVLast("init", BaseValidation, NoDF, <<>>, <<>>, NoOutcome)
    /\ made = NoCheck

InitReports ==
    /\ InitValidation(<<std_check_function>>, <<>>)
    /\ \E first \in {totals_alias, groups_alias, same_alias} : DeclaredReports(first)

\* cls.alias_mapping = cls._get_all_alias_mapping_in_class(), then the validation and
\* what the method makes of its results
ReportWith(op, cls, df, flat, out, reported) ==
    /\ alias_ref' = [alias_ref EXCEPT ![cls] = IF flat.obj = "new" THEN cls ELSE flat.obj]
    /\ alias_cell' = [alias_cell EXCEPT ![cls] = IF flat.obj = "new" THEN flat.map
                                                ELSE IF flat.obj = cls THEN @ ELSE <<>>]
    /\ bv_last' = [BVLast(op, cls, df, Layers(mro(cls), alias_ref, alias_cell), flat.map, out)
                      EXCEPT !.exc = reported.exc, !.log = reported.log]
    /\ UNCHANGED made

ErrorLogOf(cls, df, flat, out, pandas2) ==
    ReportWith("run_error_log", cls, df, flat, out, run_error_log(cls, df, out, pandas2))

SummaryOf(cls, df, flat, out) ==
    ReportWith("run_summary", cls, df, flat, out, run_summary(cls, df, out))

ErrorLogWith(cls, df, flat, pandas2) ==
    ErrorLogOf(cls, df, flat, run_validation(cls, df, flat.map), pandas2)

SummaryWith(cls, df, flat) == SummaryOf(cls, df, flat, run_validation(cls, df, flat.map))

RunErrorLog(cls, df, pandas2) ==
    /\ ErrorLogWith(cls, df, get_all_alias_mapping_in_class(cls, alias_ref, alias_cell),
                    pandas2)
    /\ UNCHANGED set_count
    /\ UNCHANGED vars_validation

RunSummary(cls, df) ==
    /\ SummaryWith(cls, df, get_all_alias_mapping_in_class(cls, alias_ref, alias_cell))
    /\ UNCHANGED set_count
    /\ UNCHANGED vars_validation

NextReports ==
    \/ \E case \in Cases : RunValidation(case[1], case[2])
    \/ \E case \in Cases : RunSummary(case[1], case[2])
    \/ \E case \in Cases, pandas2 \in BOOLEAN : RunErrorLog(case[1], case[2], pandas2)

SpecReports == InitReports /\ [][NextReports]_vars

\* the layered rule sets on the frames of the orders
LayerCases == LayerSets \X {totals_df, first_order_df, pairs_df}

NextLayers ==
    \/ \E case \in LayerCases : RunValidation(case[1], case[2])
    \/ \E case \in LayerCases : RunSummary(case[1], case[2])

SpecLayers == InitReports /\ [][NextLayers]_vars

----------------------------------------------------------------------------
(* The construction of checks as a state machine *)

MaxParams == 2

ParamNames == {arg_self, option, option_threshold, price, cost}

\* the parameter lists of a def: no name twice
ParameterLists ==
    {s \in UNION {[1..n -> ParamNames] : n \in 0..MaxParams} :
        \A i, j \in DOMAIN s : i # j => s[i] # s[j]}

Signatures ==
    UNION {{Signature(parameters, typed, returns) :
                typed \in SUBSET Range(parameters), returns \in BOOLEAN}
             : parameters \in ParameterLists}

OptionKeywords ==
    {Keywords_str(option), Keywords_list(<<option, flag>>), Keywords_None, Keywords_int}

InitCheck ==
    /\ InitValidation(<<std_check_function>>, <<>>)
    /\ Declared(Absent, Absent)

\* Check(check_function, option_keywords=...) of base_check.py; a behaviour constructs
\* one check
ConstructBaseCheck(function, option_keywords) ==
    /\ made.op = "init"
    /\ made' = base_check_init(function, option_keywords,
                               handle_class_signatures(function.parameters),
                               handle_string_to_list_conversion(option_keywords))
    /\ UNCHANGED vars_validation
    /\ UNCHANGED vars_bv

\* Check(check_function, option_keywords=...) of src/pipeline/data_quality/check.py
ConstructCheck(function, option_keywords) ==
    /\ made.op = "init"
    /\ made' = check_init(function, option_keywords,
                          handle_string_to_list_conversion(option_keywords))
    /\ UNCHANGED vars_validation
    /\ UNCHANGED vars_bv

\* check.run(**kwargs) on the object made last
RunCheck ==
    /\ made.op = "Check"
    /\ made.module = "check"
    /\ made.exists
    /\ made' = check_run(made, handle_class_signatures(made.function.parameters))
    /\ UNCHANGED vars_validation
    /\ UNCHANGED vars_bv

NextCheck ==
    \/ \E function \in Signatures, option_keywords \in OptionKeywords :
          ConstructBaseCheck(function, option_keywords)
    \/ \E function \in Signatures, option_keywords \in OptionKeywords :
          ConstructCheck(function, option_keywords)
    \/ RunCheck

SpecCheck == InitCheck /\ [][NextCheck]_vars

----------------------------------------------------------------------------
(* The binding of validation/manager.py as a state machine *)

MaxAliases == 4

ManagerSets == {TestBaseValidation, TestSecondLayer, SingleLayerObject}

ManagerFrames == {totals_df, mixed_df, pairs_df, DF(<<cost, price>>, MaxRows)}

\* cls.alias_mapping is the dict object of the first class of the MRO that has one
Bind(cls, df, bound) ==
    /\ \A i \in 1..Len(bound.alias_mapping) :
          Len(bound.alias_mapping[i].v.names) <= MaxAliases
    /\ alias_cell' = [alias_cell EXCEPT ![Lookup(cls)] = bound.alias_mapping]
    /\ bv_last' = BVLast("map_param_to_columns", cls, df, <<>>, alias_cell[Lookup(cls)],
                         Outcome(NoExc, bound.map, <<>>, <<>>))
    /\ UNCHANGED <<alias_ref, set_count, made>>
    /\ UNCHANGED vars_validation

MapParamToColumns(cls, df) ==
    Bind(cls, df, manager_map_param_to_columns(cls, df, alias_cell[Lookup(cls)]))

\* the chains of one, two and three layers
LayeredSets == {TestBaseValidation, TestSecondLayer, TestThirdLayer}

\* function_mapping = cls._get_all_functions_in_class(), the functions that the run of
\* validation/manager.py iterates through
GetAllFunctionsInClass(cls) ==
    /\ bv_last' = BVLast("get_all_functions_in_class", cls, NoDF, <<>>, <<>>,
                         Outcome(NoExc, <<>>, <<>>, manager_functions(cls)))
    /\ UNCHANGED <<alias_ref, alias_cell, set_count, made>>
    /\ UNCHANGED vars_validation

NextManager ==
    \/ \E cls \in ManagerSets, df \in ManagerFrames : MapParamToColumns(cls, df)
    \/ \E cls \in LayeredSets : GetAllFunctionsInClass(cls)

SpecManager == InitBV /\ [][NextManager]_vars

----------------------------------------------------------------------------
(* Properties of BaseValidation, checked under SpecBV                      *)

Ran == bv_last.op = "run_validation"

DeclaredKeys(layers) == UNION {Range(Keys(layers[i])) : i \in 1..Len(layers)}

Declaring(layers, key) == {i \in 1..Len(layers) : Has(layers[i], key)}

\* the value of key in the most derived layer that declares it (layers run from the
\* class itself to BaseValidation)
MostDerived(layers, key) == Get(layers[MinOf(Declaring(layers, key))], key)

\* the value of key in the most base layer that declares it
MostBase(layers, key) == Get(layers[MaxOf(Declaring(layers, key))], key)

ClassParams(cls) == Keys(map_param_to_alias(cls, <<>>))

\* the columns of the dataset that a parameter stands for: the column of its name, else
\* the columns of its alias entry that the dataset has
Resolved(df, alias_mapping, param) ==
    IF Contains(df.cols, param) THEN {param}
    ELSE IF Has(alias_mapping, param)
    THEN Range(Get(alias_mapping, param).names) \cap Range(df.cols)
    ELSE {}

MissingColumnErrors ==
    {"missing_columns", "were_not_in_the_dataframe", "not_in_index", "column", "param"}

(* C2: no function is called with one of its parameters left out of the keyword     *)
(* arguments, and a run in which a parameter resolves to no column of the dataset   *)
(* ends with a missing-column error and without any call.                           *)
C2_UnboundParameterIsAnError ==
    Ran =>
        /\ \A i \in 1..Len(bv_last.calls) : bv_last.calls[i].exc # "TypeError"
        /\ (\E param \in Range(ClassParams(bv_last.cls)) :
               Resolved(bv_last.df, bv_last.alias_mapping, param) = {})
           => /\ bv_last.exc.what \in MissingColumnErrors
              /\ bv_last.calls = <<>>

\* the numbers of columns that the parameters of one function resolve to, counting
\* only the parameters with more than one column
GroupSizes(df, alias_mapping, params) ==
    {Cardinality(Resolved(df, alias_mapping, params[i])) : i \in 1..Len(params)} \ {0, 1}

\* some function of the class has shared parameters with groups of different sizes
Uneven(cls, df, alias_mapping) ==
    \E i \in 1..Len(get_function_param_and_type(cls)) :
        Cardinality(GroupSizes(df, alias_mapping,
                               Keys(get_function_param_and_type(cls)[i].v))) > 1

(* C3: a run in which two shared parameters of one function resolve to column       *)
(* groups of different sizes ends with an alignment error that names columns, and   *)
(* calls no function on a truncated group.                                          *)
C3_UnevenGroupsAreAnError ==
    (Ran /\ Uneven(bv_last.cls, bv_last.df, bv_last.alias_mapping)) =>
        /\ bv_last.exc.what = "size_of_shared_columns_must_match"
        /\ bv_last.exc.names # {}
        /\ bv_last.calls = <<>>

\* the (function, argument set) pairs of the run
Pairs(args) == {<<i, j>> \in (1..Len(args)) \X (1..4) : j <= Len(args[i].v)}

\* the results kept for one pair
Kept(res, function_name, arg_pair) ==
    {r \in 1..Len(res) : /\ res[r].v.function_name = function_name
                         /\ res[r].k = convert_dict_to_ref_names(arg_pair)}

(* C6: a run that ends without an exception returns exactly one result for every    *)
(* (function, argument set) pair, and no other result.                              *)
C6_OneResultPerFunctionAndArguments ==
    (Ran /\ bv_last.exc = NoExc) =>
        /\ \A p \in Pairs(bv_last.args) :
              Cardinality(Kept(bv_last.results, bv_last.args[p[1]].k,
                               bv_last.args[p[1]].v[p[2]])) = 1
        /\ Len(bv_last.results) = Cardinality(Pairs(bv_last.args))

\* the columns bound to a parameter, one per argument set that holds the parameter
Bound(arg_sets, param) ==
    [j \in {k \in 1..Len(arg_sets) : Has(arg_sets[k], param)} |-> Get(arg_sets[j], param)]

\* the alias names that are columns of the dataset, in the order of the alias entry
Present(df, alias_mapping, param) == Filter(Get(alias_mapping, param).names, Range(df.cols))

(* C9: a parameter that is no column name and has an alias entry is bound to the    *)
(* alias names that the dataset has: to the one name in every argument set when one *)
(* remains, to the j-th name in the j-th argument set when several remain, and in   *)
(* no argument set to a name that the dataset does not have.                        *)
C9_AliasFilteredToDataset ==
    Ran =>
        \A i \in 1..Len(bv_last.args) :
            \A param \in Range(Keys(get_function_param_and_type(bv_last.cls)[i].v)) :
                (~Contains(bv_last.df.cols, param) /\ Has(bv_last.alias_mapping, param)) =>
                    \A j \in DOMAIN Bound(bv_last.args[i].v, param) :
                        /\ Contains(bv_last.df.cols, Bound(bv_last.args[i].v, param)[j])
                        /\ Bound(bv_last.args[i].v, param)[j] =
                              IF Len(Present(bv_last.df, bv_last.alias_mapping, param)) = 1
                              THEN Present(bv_last.df, bv_last.alias_mapping, param)[1]
                              ELSE Present(bv_last.df, bv_last.alias_mapping, param)[j]

----------------------------------------------------------------------------
(* Properties of Validation, checked under Spec                            *)

RanChecks == last.op = "run"

\* the results that a check has in self.results: their names start with its name
ResultsOf(check) == {i \in 1..Len(results) : results[i].k[1] = check.name}

(* C4: a run with infer_shared on the dataset {id, tsm_gross, tsm_expenses} of the  *)
(* check f(stock_gross, stock_expenses) ends without an exception and leaves one    *)
(* result for the check, which holds one boolean per row of the dataset.            *)
C4_SingleMemberGroupGivesOneSeries ==
    (RanChecks /\ last.df = single_stock_df /\ last.infer_shared
              /\ checks_performed = <<std_check_function>>) =>
        /\ last.exc = NoExc
        /\ Cardinality(ResultsOf(std_check_function)) = 1
        /\ \A i \in ResultsOf(std_check_function) :
              results[i].v.kind = "series" /\ Len(results[i].v.val) = last.df.rows

\* the columns that the run bound to a shared parameter
SharedColumns(param) ==
    IF Has(shared_param_column_map, param) THEN Get(shared_param_column_map, param) ELSE <<>>

\* the check was called in the run with both its parameters bound as shared parameters
\* to n columns each
TwoGroupsOf(check, n) ==
    /\ Len(check.expected_arguments) = 2
    /\ \A i \in 1..2 : Len(SharedColumns(check.expected_arguments[i])) = n
    /\ \E i \in 1..Len(last.calls) : last.calls[i].check = check.name

(* C5: a run that calls a check whose two parameters are shared parameters bound to *)
(* N columns each ends without an exception and leaves exactly N results for the    *)
(* check.                                                                           *)
C5_TwoGroupsOfNGiveNResults ==
    RanChecks =>
        \A i \in 1..Len(checks_performed) : \A n \in 1..2 :
            TwoGroupsOf(checks_performed[i], n) =>
                /\ last.exc = NoExc
                /\ Cardinality(ResultsOf(checks_performed[i])) = n

\* what the caller of a run sees, and the bindings and results the run leaves
Seen(exc, calls, static, shared, res) ==
    [exc |-> exc, calls |-> calls, arg_map |-> static, shared_param_column_map |-> shared,
     results |-> res]

SeenOf(o) == Seen(o.exc, o.calls, o.arg_map, o.shared_param_column_map, o.results)

(* C7: the outcome, the bindings and the results of a run on a dataset are those of *)
(* the same run on a Validation that was never run before.                          *)
C7_RunIsStateless ==
    RanChecks =>
        Seen(last.exc, last.calls, arg_map, shared_param_column_map, results)
          = SeenOf(run(NewValidation(checks_performed, shared_params), last.df,
                       last.infer_shared))

\* the parameters of the first check, each of which _infer_param_class has classified
\* when the run ends, however it ends
FirstParams == Range(checks_performed[1].expected_arguments)

(* C8: after a run, a parameter whose name is a column name of the dataset is bound *)
(* to that column as a static argument and is no shared parameter.                  *)
C8_ExactNameIsStatic ==
    RanChecks =>
        \A param \in FirstParams \cap Range(last.df.cols) :
            /\ Has(arg_map, param)
            /\ Get(arg_map, param) = param
            /\ ~Has(shared_param_column_map, param)

\* both names have an underscore and the same part after their first underscore
SameBase(column, param) ==
    /\ FirstUnderscore(column) # 0
    /\ FirstUnderscore(param) # 0
    /\ SubSeq(column, FirstUnderscore(column) + 1, Len(column))
         = SubSeq(param, FirstUnderscore(param) + 1, Len(param))

(* C10: after a run with infer_shared, a parameter that is no column name of the    *)
(* dataset is bound to the list of the columns of the dataset whose part after the  *)
(* first underscore is that of the parameter, and to no other column.               *)
C10_SharedBindsEqualBases ==
    (RanChecks /\ last.infer_shared) =>
        \A param \in FirstParams \ Range(last.df.cols) :
            SharedColumns(param)
              = Filter(last.df.cols, {c \in Range(last.df.cols) : SameBase(c, param)})

\* the expected arguments of a check that are no column name of the dataset
Unmatched(check, df) == Range(check.expected_arguments) \ Range(df.cols)

\* the first check of the list that has an unmatched argument
FirstUnmatched(checks, df) ==
    checks[MinOf({i \in 1..Len(checks) : Unmatched(checks[i], df) # {}})]

(* C11: a run without infer_shared on a dataset that lacks a column for some        *)
(* expected argument ends with the ValueError that names every unmatched argument   *)
(* of the check and suggests infer_shared.                                          *)
C11_UnmatchedParameterIsNamed ==
    (/\ RanChecks
     /\ ~last.infer_shared
     /\ \E i \in 1..Len(checks_performed) : Unmatched(checks_performed[i], last.df) # {})
    => /\ last.exc.type = "ValueError"
       /\ last.exc.what = "no_matching_column"
       /\ last.exc.names = Unmatched(FirstUnmatched(checks_performed, last.df), last.df)
       /\ last.exc.suggest

\* generate_error_log was the last call
AskedLog == last.op = "generate_error_log"

(* C12: generate_error_log ends with the RuntimeError of _confirm_run_was_ran when  *)
(* no run has completed, and returns the error log once a run has completed.        *)
C12_ErrorLogNeedsACompletedRun ==
    AskedLog =>
        IF flag_run_processed
        THEN last.exc = NoExc
        ELSE last.exc.type = "RuntimeError" /\ last.exc.what = "run_was_not_ran"

----------------------------------------------------------------------------
(* Properties of the reports of BaseValidation, checked under SpecReports  *)

AskedErrorLog == bv_last.op = "run_error_log"

\* the rows at the positions where the result is false, under the name of its function
FalseRows(r) ==
    [i \in 1..Len(Filter([p \in 1..Len(r.result) |-> p],
                         {p \in 1..Len(r.result) : ~r.result[p]})) |->
        [row |-> Filter([p \in 1..Len(r.result) |-> p],
                        {p \in 1..Len(r.result) : ~r.result[p]})[i],
         Check |-> r.function_name]]

(* C13: the error log that run_error_log returns holds, for every result of the run *)
(* in turn, the rows at the positions where the result is false, and no other row.  *)
C13_ErrorLogHoldsTheFalseRows ==
    (AskedErrorLog /\ bv_last.exc = NoExc) =>
        bv_last.log = Concat([i \in 1..Len(bv_last.results) |->
                                 FalseRows(bv_last.results[i].v)])

\* the operations of BaseValidation that run the rules of a class over a dataset
RanRules == bv_last.op \in {"run_validation", "run_summary", "run_error_log"}

\* the values of row r bound to the parameters, each of which resolves to one column
BoundRow(df, alias_mapping, params, r) ==
    [i \in 1..Len(params) |->
        Item(params[i], Cell(CHOOSE c \in Resolved(df, alias_mapping, params[i]) : TRUE, r))]

\* a function with a return type whose parameters are all scalar, each bound to exactly
\* one column of the dataset, and which raises on no row
StaticScalarRule(function, df, alias_mapping) ==
    /\ Has(function.annotations, return)
    /\ ~HasSeries(Parameters(function))
    /\ \A param \in Range(Keys(Parameters(function))) :
          Cardinality(Resolved(df, alias_mapping, param)) = 1
    /\ \A r \in 1..df.rows :
          ~Raises(function, BoundRow(df, alias_mapping, Keys(Parameters(function)), r))

\* every rule of the class is such a function
StaticScalarRules(cls, df, alias_mapping) ==
    /\ get_all_functions_in_class(cls) # <<>>
    /\ \A i \in 1..Len(get_all_functions_in_class(cls)) :
          StaticScalarRule(get_all_functions_in_class(cls)[i].v, df, alias_mapping)

\* the results of one rule
ResultsOfRule(res, function_name) ==
    {r \in 1..Len(res) : res[r].v.function_name = function_name}

(* C14: when every rule of the class has only scalar parameters, each bound to one  *)
(* existing column of the dataset by its name or its alias, the run ends without an *)
(* exception and holds for every rule exactly one result, as long as the dataset.   *)
C14_StaticScalarRuleGivesOneResult ==
    (RanRules /\ StaticScalarRules(bv_last.cls, bv_last.df, bv_last.alias_mapping)) =>
        \A i \in 1..Len(get_all_functions_in_class(bv_last.cls)) :
            /\ Cardinality(ResultsOfRule(bv_last.results,
                                         get_all_functions_in_class(bv_last.cls)[i].k)) = 1
            /\ \A r \in ResultsOfRule(bv_last.results,
                                      get_all_functions_in_class(bv_last.cls)[i].k) :
                  Len(bv_last.results[r].v.result) = bv_last.df.rows

----------------------------------------------------------------------------
(* Properties of the construction of checks, checked under SpecCheck       *)

MadeCheck == made.op = "Check"

\* the parameters of the function without an annotation, self and cls apart
Untyped(function) == Range(function.parameters) \ (function.typed \cup {arg_self, arg_cls})

(* C15: Check(...) of a function that has a parameter without an annotation, or no  *)
(* parameter at all, ends with an exception and leaves no Check object.             *)
C15_UntypedOrEmptySignatureIsRejected ==
    (MadeCheck /\ (Untyped(made.function) # {} \/ made.function.parameters = <<>>)) =>
        /\ made.exc # NoExc
        /\ ~made.exists

\* the name begins with one of the option keywords
OptionPrefixed(param, keywords) ==
    \E i \in 1..Len(keywords) :
        /\ Len(param) >= Len(keywords[i])
        /\ SubSeq(param, 1, Len(keywords[i])) = keywords[i]

(* C16: the expected_arguments of a Check hold no parameter whose name begins with  *)
(* an option keyword and no return annotation, and hold every other annotated       *)
(* parameter of the function with its annotation.                                   *)
C16_ExpectedArgumentsLeaveOutOptions ==
    (MadeCheck /\ made.exists) =>
        /\ \A param \in Range(Keys(made.expected_arguments)) :
              /\ ~OptionPrefixed(param, made.option_keywords.names)
              /\ param # return
        /\ \A param \in made.function.typed :
              ~OptionPrefixed(param, made.option_keywords.names) =>
                  /\ Has(made.expected_arguments, param)
                  /\ Get(made.expected_arguments, param)
                        = Get(get_annotations(made.function), param)

----------------------------------------------------------------------------
(* Properties of the runs of BaseValidation, checked under SpecReports     *)

\* a rule of the class has a pd.Series parameter and a scalar parameter
MixedRule(cls) ==
    \E i \in 1..Len(get_function_param_and_type(cls)) :
        /\ HasSeries(get_function_param_and_type(cls)[i].v)
        /\ HasScalar(get_function_param_and_type(cls)[i].v)

(* C17: a run, a summary or an error log of a class with a rule that has both a     *)
(* pd.Series parameter and a scalar parameter ends with an exception, and no rule   *)
(* function of the class has been called.                                           *)
C17_MixedRuleIsRejectedBeforeAnyCall ==
    (RanRules /\ MixedRule(bv_last.cls)) =>
        /\ bv_last.exc # NoExc
        /\ bv_last.calls = <<>>
        /\ bv_last.results = <<>>

\* the mixed rule of MixedLayerObject, behind a scalar rule that every verification of
\* the frame of the orders lets pass, is rejected by the mapping of the function types
C17_MixedRuleReachesTheTypeMapping ==
    /\ RanRules
    /\ MixedRule(bv_last.cls)
    /\ bv_last.df.rows > 0
    /\ bv_last.exc.what = "both_a_scalar_parameter_and_a_series_parameter"
    /\ bv_last.calls = <<>>

\* a rule of the class has no return annotation
RuleWithoutReturn(cls) ==
    \E i \in 1..Len(get_function_return_type(cls)) : get_function_return_type(cls)[i].v = "None"

\* another rule of the class has one
RuleWithReturn(cls) ==
    \E i \in 1..Len(get_function_return_type(cls)) : get_function_return_type(cls)[i].v # "None"

(* C18: a run, a summary or an error log of a class with a rule function without a  *)
(* return annotation ends with an exception, and no rule function of the class has  *)
(* been called, whatever the other rules of the class declare.                      *)
C18_RuleWithoutReturnIsRejectedBeforeAnyCall ==
    (RanRules /\ RuleWithoutReturn(bv_last.cls)) =>
        /\ bv_last.exc # NoExc
        /\ bv_last.calls = <<>>
        /\ bv_last.results = <<>>

\* the rule without a return annotation stands behind a fully declared rule, and the
\* run ends with the ValueError of the return verification
C18_SiblingWithoutReturnIsRejected ==
    /\ RanRules
    /\ RuleWithoutReturn(bv_last.cls)
    /\ RuleWithReturn(bv_last.cls)
    /\ bv_last.df.rows > 0
    /\ bv_last.exc.type = "ValueError"
    /\ bv_last.exc.what = "missing_a_return_type"
    /\ bv_last.calls = <<>>

----------------------------------------------------------------------------
(* Properties of the binding of validation/manager.py, checked under       *)
(* SpecManager                                                              *)

BoundColumns == bv_last.op = "map_param_to_columns"

(* C19: _map_param_to_columns leaves the alias_mapping of the class as it was, and  *)
(* called again for the same class and the same dataset it returns the same         *)
(* parameter-to-column mapping.                                                     *)
C19_BindingIsIdempotent ==
    [][BoundColumns' =>
          /\ alias_cell' = alias_cell
          /\ (BoundColumns /\ bv_last'.cls = bv_last.cls /\ bv_last'.df = bv_last.df)
             => bv_last'.args = bv_last.args]_vars

\* a call of a rule function ended with an exception
CallRaised == \E i \in 1..Len(bv_last.calls) : bv_last.calls[i].exc # "None"

(* C20: when a call of a rule function raises, it is the last call of the run, its  *)
(* exception is the one that the caller of the run, the summary or the error log    *)
(* gets, and no result, summary row or error-log row of any rule is returned.       *)
C20_RaisingRuleLeavesNothing ==
    (RanRules /\ CallRaised) =>
        /\ bv_last.calls[Len(bv_last.calls)].exc = bv_last.exc.type
        /\ \A i \in 1..(Len(bv_last.calls) - 1) : bv_last.calls[i].exc = "None"
        /\ bv_last.exc # NoExc
        /\ bv_last.results = <<>>
        /\ IF bv_last.op = "run_summary" THEN bv_last.log = {} ELSE bv_last.log = <<>>

\* a summary or an error log of a class whose first rule has been evaluated over the
\* frame when its second rule raises ZeroDivisionError or ValueError on a row
C20_SecondRuleRaisesAfterTheFirstRan ==
    /\ bv_last.op \in {"run_summary", "run_error_log"}
    /\ Len(bv_last.calls) = 2
    /\ bv_last.calls[1].exc = "None"
    /\ bv_last.calls[2].exc \in {"ZeroDivisionError", "ValueError"}
    /\ bv_last.exc.what = "raised_by_the_function"
    /\ bv_last.results = <<>>

----------------------------------------------------------------------------
(* Further properties of Validation, checked under Spec                    *)

\* the entity prefixes of the columns that a call binds to shared parameters
Prefixes(args) ==
    {generate_base_name(args[i].v, TRUE) :
        i \in {j \in 1..Len(args) : Has(shared_param_column_map, args[j].k)}}

(* C21: in every call of a check function that a run makes, the columns bound to    *)
(* the shared parameters of the call all have the same entity prefix.               *)
C21_ArgumentSetKeepsOnePrefix ==
    RanChecks =>
        \A i \in 1..Len(last.calls) : Cardinality(Prefixes(last.calls[i].args)) <= 1

----------------------------------------------------------------------------
(* Further properties of the runs of BaseValidation, checked under         *)
(* SpecReports                                                              *)

\* the parameters of the rules of the run that are no column and have no alias entry
Untied == missing_params(bv_last.df, map_param_to_alias(bv_last.cls, bv_last.alias_mapping))

(* C22: a run of a class that has a rule function without a return annotation ends  *)
(* with the KeyError of the columns when a parameter of the class is no column and  *)
(* has no alias entry, with "Missing columns" and the names of these parameters     *)
(* when the alias entries themselves pass, and it ends with the ValueError of the   *)
(* return type only when no parameter is left without a column or an alias entry.   *)
C22_MissingColumnsComeBeforeReturnType ==
    (RanRules /\ RuleWithoutReturn(bv_last.cls)) =>
        /\ Untied # {} =>
              /\ bv_last.exc.type = "KeyError"
              /\ bv_last.exc.what \in {"missing_columns", "were_not_in_the_dataframe"}
              /\ verify_alias_mapping(bv_last.df, bv_last.alias_mapping) = NoExc
                 => (bv_last.exc.what = "missing_columns" /\ bv_last.exc.names = Untied)
        /\ bv_last.exc.what = "missing_a_return_type" => Untied = {}

\* the run of test_basic_one_function: the parameters a, b and c of a function without
\* a return annotation are no columns of the frame and have no alias entry
C22_UntiedParametersOfARuleWithoutReturn ==
    /\ RanRules
    /\ RuleWithoutReturn(bv_last.cls)
    /\ Untied # {}
    /\ bv_last.exc.type = "KeyError"
    /\ bv_last.exc.what = "missing_columns"

----------------------------------------------------------------------------
(* Properties of the binding of the parameters of Validation, checked      *)
(* under Spec                                                               *)

(* C23: after a run with infer_shared, no column bound to a shared parameter is a   *)
(* column name without an underscore, such as id.                                   *)
C23_SharedColumnsHaveAnUnderscore ==
    (RanChecks /\ last.infer_shared) =>
        \A i \in 1..Len(shared_param_column_map) :
            \A j \in 1..Len(shared_param_column_map[i].v) :
                FirstUnderscore(shared_param_column_map[i].v[j]) # 0

----------------------------------------------------------------------------
(* Properties of the layers of a rule set *)

\* the names of the check functions that the layers of the chain of cls declare
DeclaredChecks(cls) ==
    UNION {Range(Keys(ClassFunctions(mro(cls)[i]))) : i \in 1..(Len(mro(cls)) - 1)}

(* C24: the functions that a run iterates through are those of every layer of the   *)
(* chain of the rule set: every check function that a layer declares is listed.     *)
C24_EveryLayerIsListed ==
    bv_last.op = "get_all_functions_in_class" =>
        DeclaredChecks(bv_last.cls) \subseteq Range(Keys(bv_last.results))

\* the names that cls declares and a base layer of cls declares too
Redeclared(cls) == Range(Keys(ClassFunctions(cls))) \cap DeclaredChecks(mro(cls)[2])

\* the values that the function of the body of cls under the name of call i gives
DerivedValues(i) ==
    [r \in 1..bv_last.df.rows |->
        Invoke(Get(ClassFunctions(bv_last.cls), bv_last.calls[i].check),
               SeriesRow(bv_last.calls[i].args, r))]

(* C29: after a run that returned, the result of every call of a check function     *)
(* whose name the rule set declares again over a base layer holds the values of the *)
(* function of the derived layer.                                                   *)
C29_DerivedFunctionRuns ==
    (RanRules /\ bv_last.exc = NoExc) =>
        \A i \in 1..Len(bv_last.calls) :
            bv_last.calls[i].check \in Redeclared(bv_last.cls) =>
                Get(bv_last.results,
                    convert_dict_to_ref_names(bv_last.calls[i].args)).result
                  = DerivedValues(i)

----------------------------------------------------------------------------
(* Properties of the runs of one Validation object, checked under Spec *)

(* C26: a run without infer_shared, on an object without shared_param that has seen *)
(* the columns of this dataset only, ends with the ValueError of the missing column *)
(* when an expected argument of a check is no column name of the dataset, whatever  *)
(* the runs before it were given as infer_shared.                                   *)
C26_InferSharedIsPerRun ==
    (/\ RanChecks
     /\ ~last.infer_shared
     /\ shared_params = <<>>
     /\ df_columns = last.df.cols
     /\ \E i \in 1..Len(checks_performed) : Unmatched(checks_performed[i], last.df) # {})
    => /\ last.exc.type = "ValueError"
       /\ last.exc.what = "no_matching_column"

(* C27: a run that ends with an exception leaves results and flag_run_processed of  *)
(* the object as they were before the run.                                          *)
C27_AbortedRunKeepsResults ==
    [][(runs' = runs + 1 /\ last'.exc # NoExc) =>
          (results' = results /\ flag_run_processed' = flag_run_processed)]_vars

\* the check at which the run ended: the first one of the list that was not called
Rejected ==
    checks_performed[MinOf({i \in 1..Len(checks_performed) :
                               \A j \in 1..Len(last.calls) :
                                   last.calls[j].check # checks_performed[i].name})]

\* the sizes of the lists of columns bound to the shared parameters of the check
SharedGroupSizes(check) ==
    {Len(SharedColumns(param)) :
        param \in {p \in Range(check.expected_arguments) : Has(shared_param_column_map, p)}}

(* C28: a run ends with the IndexError of the sizes of the shared columns only at a *)
(* check whose own shared parameters are bound to lists of different sizes.         *)
C28_SizeCheckIsPerRule ==
    (RanChecks /\ last.exc.what = "size_of_shared_columns_must_match") =>
        Cardinality(SharedGroupSizes(Rejected)) > 1

----------------------------------------------------------------------------
(* Further properties of the alias mappings, checked under SpecBV *)

\* the content of cls.alias_mapping, as an instance of cls reads it
SeenBy(cls) == alias_cell[Lookup(cls)]

(* C30: an assignment instance.alias_mapping[param] = [...] or a run on a rule set  *)
(* leaves the alias mapping of every class that is neither this rule set nor one of *)
(* its descendants as it was.                                                       *)
C30_AliasMappingsAreIsolated ==
    [][\A other \in Classes :
          (other # bv_last'.cls /\ ~Contains(mro(other), bv_last'.cls)) =>
              SeenBy(other)' = SeenBy(other)]_vars

----------------------------------------------------------------------------
(* The Pipeline as a state machine: reports are added with the one         *)
(* Validation object, and the error logs are asked for.                    *)

key == <<"key">>

\* the frame of exact_stock_df with the rows of MaxRows days
exact_stock_df_b == DF(<<id, stock_g, stock_e, tsm_g>>, MaxRows)

first_report == Report_init("first", <<>>, exact_stock_df)
second_report == Report_init("second", <<>>, exact_stock_df_b)
keyed_report == Report_init("keyed", <<Item(id, key)>>, exact_stock_df_b)
single_report == Report_init("single", <<>>, single_stock_df)

PipelineReports == {first_report, second_report, keyed_report, single_report}

ReportNames == {report.name_convention : report \in PipelineReports}

InitPipeline ==
    /\ \E check \in {<<std_check_function>>, <<gross_check_function, std_check_function>>} :
          InitValidation(check, <<>>)
    /\ Declared(Absent, Absent)

\* validation.run(df=report.df, infer_shared=True) on the formatted frame, then the pairs
AddWith(report, df, o) ==
    /\ Assign(o, df, TRUE)
    /\ pipeline' = add_report_set(pipeline, report, o)

AddReportSet(report) ==
    /\ runs < MaxRuns
    /\ AddWith(report, format(report), run(Self, format(report), TRUE))
    /\ runs' = runs + 1
    /\ UNCHANGED <<checks_performed, shared_params>>
    /\ UNCHANGED vars_bv
    /\ UNCHANGED made

Answer(report_name, g) ==
    pipeline' = [pipeline EXCEPT !.op = "run_error_log", !.report_name = report_name,
                                 !.exc = g.exc, !.log = g.log]

PipelineRunErrorLog(report_name) ==
    /\ Answer(report_name,
              pipeline_run_error_log(pipeline, generate_error_log(Self), report_name))
    /\ UNCHANGED <<checks_performed, shared_params, arg_map, shared_param_column_map,
                   option_map, df_columns, column_base_name_map, param_base_name_map,
                   flag_infer_shared_params, results, flag_run_processed, runs, last>>
    /\ UNCHANGED vars_bv
    /\ UNCHANGED made

NextPipeline ==
    \/ \E report \in PipelineReports : AddReportSet(report)
    \/ \E report_name \in ReportNames \cup {"None"} : PipelineRunErrorLog(report_name)

SpecPipeline == InitPipeline /\ [][NextPipeline]_vars

\* the report that was added under the name
ReportNamed(report_name) ==
    CHOOSE report \in PipelineReports : report.name_convention = report_name

\* the error log of a Validation of these checks that has been run on this report only
OwnLog(report_name) ==
    generate_error_log(run(NewValidation(checks_performed, shared_params),
                           format(ReportNamed(report_name)), TRUE)).log

(* C25: run_error_log(report_name) returns the error log of the validation of that  *)
(* report, and run_error_log() returns these logs of the reports that were added,   *)
(* one after the other in the order of the reports.                                 *)
C25_EachReportHasItsOwnLog ==
    (pipeline.op = "run_error_log" /\ pipeline.exc = NoExc) =>
        pipeline.log =
            IF pipeline.report_name = "None"
            THEN Concat([i \in 1..Len(pipeline.report_name_validation_pairs) |->
                            OwnLog(pipeline.report_name_validation_pairs[i].k)])
            ELSE OwnLog(pipeline.report_name)

====
